---------------------------- MODULE Spec2Model ----------------------------
(***************************************************************************)
(* A model of the coordinator core of 10101: the order matcher and the     *)
(* trading pipeline (coordinator/src/orderbook/trading.rs), the DLC        *)
(* channel store (coordinator/src/db/dlc_channels.rs), the collaborative   *)
(* revert protocol and its arithmetic (coordinator/src/                    *)
(* collaborative_revert.rs) and the on-chain wallet's outpoint reservation *)
(* (crates/ln-dlc-node/src/ldk_node_wallet.rs).                            *)
(*                                                                         *)
(* Each subsystem has its own variables and its own specification; a       *)
(* specification leaves the other subsystems' variables at their initial   *)
(* value.                                                                  *)
(*                                                                         *)
(* Machine integers: u64 and i64 are modelled with Width bits instead of   *)
(* 64 (TLC's integers are 32 bits wide); every conversion and every        *)
(* checked or unchecked operation is computed at that width.               *)
(***************************************************************************)
EXTENDS Integers, Sequences, FiniteSets, TLC

VARIABLES
    fee_call,       \* calculate_dlc_channel_tx_fees: arguments and result
    match_call,     \* sort_orders / match_order: arguments and results
    dlc_channels,   \* the dlc_channels table: a sequence of rows
    overflow_checks,        \* build profile: does integer overflow panic (TRUE) or wrap
    positions,              \* positions table: trader -> state of the trader's position
    collaborative_reverts,  \* collaborative_reverts table: channel id -> row or NoRow
    broadcasts,             \* transactions handed to the blockchain, in order
    revert_call,            \* the last call of the revert protocol and its outcome
    bdk_spent,          \* outpoints the BDK wallet's database knows to be spent
    chain_spent,        \* outpoints spent by a transaction the blockchain has seen
    locked_outpoints,   \* Wallet::locked_outpoints, a Vec<OutPoint>
    inner_owner,        \* thread holding the mutex around the BDK wallet (0: free)
    locked_owner,       \* thread holding the mutex around locked_outpoints (0: free)
    wallet_threads,     \* each thread's call of the wallet and its position in it
    funding_flows,      \* the inputs handed to each funding flow, and whether its
                        \* transaction has been broadcast
    orders_table,       \* the orders table: order id -> row or NoOrder
    matches_table,      \* the matches table: a set of rows
    price_feed,         \* the messages broadcast on the price feed
    notifications,      \* the trader messages the notifier has accepted
    tasks,              \* the process_new_order tasks the consumer has spawned
    now                 \* the clock

revertVars == <<overflow_checks, positions, collaborative_reverts, broadcasts, revert_call>>
walletVars == <<bdk_spent, chain_spent, locked_outpoints, inner_owner, locked_owner,
                wallet_threads, funding_flows>>
tradingVars == <<orders_table, matches_table, price_feed, notifications, tasks, now>>
vars == <<fee_call, match_call, dlc_channels, revertVars, walletVars, tradingVars>>

(***************************************************************************)
(* Machine integers                                                        *)
(***************************************************************************)
Width == 20

UMax == 2^Width - 1
IMax == 2^(Width - 1) - 1
IMin == 0 - 2^(Width - 1)

\* `x as u64`
AsU64(x) == x % (2^Width)

\* `x as i64`
AsI64(x) ==
    LET m == x % (2^Width)
    IN  IF m > IMax THEN m - 2^Width ELSE m

Some(v) == [some |-> TRUE, v |-> v]
None == [some |-> FALSE, v |-> 0]

\* u64::checked_sub
CheckedSubU64(a, b) == IF a >= b THEN Some(a - b) ELSE None

\* i64::checked_sub, i64::checked_add
CheckedSubI64(a, b) == IF a - b >= IMin /\ a - b <= IMax THEN Some(a - b) ELSE None
CheckedAddI64(a, b) == IF a + b >= IMin /\ a + b <= IMax THEN Some(a + b) ELSE None

(***************************************************************************)
(* collaborative_revert.rs: calculate_dlc_channel_tx_fees                  *)
(***************************************************************************)
Ok(v) == [ok |-> TRUE, v |-> v]
Err == [ok |-> FALSE, v |-> 0]

calculate_dlc_channel_tx_fees(initial_funding, pnl, inbound_capacity, outbound_capacity, trader_margin, coordinator_margin) ==
    LET s1 == CheckedSubU64(initial_funding, inbound_capacity)
        s2 == CheckedSubU64(s1.v, outbound_capacity)
        t  == CheckedSubI64(trader_margin, pnl)
        s3 == CheckedSubU64(s2.v, AsU64(t.v))
        c  == CheckedAddI64(coordinator_margin, pnl)
        s4 == CheckedSubU64(s3.v, AsU64(c.v))
    IN  IF ~s1.some THEN Err
        ELSE IF ~s2.some THEN Err
        ELSE IF ~t.some THEN Err
        ELSE IF ~s3.some THEN Err
        ELSE IF ~c.some THEN Err
        ELSE IF ~s4.some THEN Err
        ELSE Ok(s4.v)

\* The arguments the fee calculation is exercised with: the two unit tests'
\* values, small values around zero, and the ends of the integer ranges.
FundingValues == {200000, 1000, 0, UMax}
PnlValues == {0 - 4047, 0 - 100, 20, 0 - 20}
InboundValues == {65450, 65383, 0}
OutboundValues == {85673, 88330, 0}
TraderMarginValues == {18690, 180362, 10}
CoordinatorMarginValues == {18690, 180362, 30}

FeeArgs ==
    [initial_funding : FundingValues, pnl : PnlValues,
     inbound_capacity : InboundValues, outbound_capacity : OutboundValues,
     trader_margin : TraderMarginValues, coordinator_margin : CoordinatorMarginValues]

FeeInit == fee_call \in [args : FeeArgs, pc : {"call"}, result : {Err}]

FeeIdle == fee_call = [pc |-> "idle"]

CalculateFees ==
    /\ fee_call.pc = "call"
    /\ fee_call' =
         [fee_call EXCEPT
            !.pc = "done",
            !.result = calculate_dlc_channel_tx_fees(
                          fee_call.args.initial_funding, fee_call.args.pnl,
                          fee_call.args.inbound_capacity, fee_call.args.outbound_capacity,
                          fee_call.args.trader_margin, fee_call.args.coordinator_margin)]
    /\ UNCHANGED <<match_call, dlc_channels, revertVars, walletVars, tradingVars>>

(***************************************************************************)
(* orderbook/trading.rs: sort_orders and match_order                       *)
(***************************************************************************)
MaxBook == 3        \* longest candidate list handed to match_order
MaxPrice == 2
MaxQuantity == 2
MaxTimestamp == 1
NumTraders == 2

Traders == 1..NumTraders
Directions == {"Long", "Short"}
OrderTypes == {"Market", "Limit"}

\* Direction::opposite
Opposite(d) == IF d = "Long" THEN "Short" ELSE "Long"

\* Ord::cmp on two numbers
Cmp(a, b) == IF a < b THEN "Less" ELSE IF a = b THEN "Equal" ELSE "Greater"

\* The closure passed to sort_by in sort_orders.
CompareOrdersUntied(a, b, market_order_direction) ==
    IF market_order_direction = "Long" THEN Cmp(a.price, b.price) ELSE Cmp(b.price, a.price)

CompareOrders(a, b, market_order_direction) ==
    IF Cmp(a.price, b.price) = "Equal"
    THEN Cmp(a.timestamp, b.timestamp)
    ELSE IF market_order_direction = "Long"
         THEN Cmp(a.price, b.price)
         ELSE Cmp(b.price, a.price)

\* slice::sort_by is a stable sort: x goes behind every element that does not
\* compare greater than it.
RECURSIVE InsertStable(_, _, _)
InsertStable(sorted, x, dir) ==
    IF sorted = <<>> THEN <<x>>
    ELSE IF CompareOrders(x, Head(sorted), dir) = "Less"
         THEN <<x>> \o sorted
         ELSE <<Head(sorted)>> \o InsertStable(Tail(sorted), x, dir)

RECURSIVE SortBy(_, _, _)
SortBy(todo, sorted, dir) ==
    IF todo = <<>> THEN sorted
    ELSE SortBy(Tail(todo), InsertStable(sorted, Head(todo), dir), dir)

\* A sort that leaves the orders as they come.
unsorted_orders(limit_orders, market_order_direction) == limit_orders

sort_orders(limit_orders, market_order_direction) ==
    SortBy(limit_orders, <<>>, market_order_direction)

\* The filter of match_order: candidates of the market order's direction are dropped.
KeepAllCandidates(market_order, opposite_direction_orders) == opposite_direction_orders

FilterOppositeDirection(market_order, opposite_direction_orders) ==
    SelectSeq(opposite_direction_orders, LAMBDA o : o.direction # market_order.direction)

\* The while loop of match_order: pop the head, subtract its quantity, stop
\* once the remaining quantity is not positive.
RECURSIVE MatchingWalk(_, _, _)
MatchingWalk(orders, remaining_quantity, matched_orders) ==
    IF orders = <<>> THEN matched_orders
    ELSE LET matched_order == Head(orders)
             remaining == remaining_quantity - matched_order.quantity
         IN  IF remaining <= 0
             THEN Append(matched_orders, matched_order)
             ELSE MatchingWalk(Tail(orders), remaining, Append(matched_orders, matched_order))

\* The MatchParams built from the matched orders (lines 320-369): for each
\* maker its own TraderMatchParams and the Match the taker is filled with.
MatchParams(market_order, matched_orders) ==
    [taker_match |->
        [trader_id |-> market_order.trader_id,
         filled_with |->
            [order_id |-> market_order.id,
             matches |-> [i \in 1..Len(matched_orders) |->
                            [order_id |-> matched_orders[i].id,
                             quantity |-> market_order.quantity,
                             pubkey |-> matched_orders[i].trader_id,
                             execution_price |-> matched_orders[i].price]]]],
     makers_matches |->
        [i \in 1..Len(matched_orders) |->
            [trader_id |-> matched_orders[i].trader_id,
             filled_with |->
                [order_id |-> matched_orders[i].id,
                 matches |-> << [order_id |-> market_order.id,
                                 quantity |-> market_order.quantity,
                                 pubkey |-> market_order.trader_id,
                                 execution_price |-> matched_orders[i].price] >>]]]]

NoMatch == [kind |-> "NoMatch"]
MatchError == [kind |-> "Err"]
Matched(p) == [kind |-> "Match", params |-> p]

\* match_order, were it to settle for the best maker when the walk consumed
\* more than one.
match_order_best_maker(market_order, opposite_direction_orders) ==
    IF market_order.order_type = "Limit" THEN NoMatch
    ELSE
      LET filtered == FilterOppositeDirection(market_order, opposite_direction_orders)
          sorted == sort_orders(filtered, market_order.direction)
          matched_orders == MatchingWalk(sorted, market_order.quantity, <<>>)
      IN  IF matched_orders = <<>> THEN NoMatch
          ELSE Matched(MatchParams(market_order, <<matched_orders[1]>>))

\* match_order, were it to return a match with every maker the walk consumed.
match_order_all_makers(market_order, opposite_direction_orders) ==
    IF market_order.order_type = "Limit" THEN NoMatch
    ELSE
      LET filtered == FilterOppositeDirection(market_order, opposite_direction_orders)
          sorted == sort_orders(filtered, market_order.direction)
          matched_orders == MatchingWalk(sorted, market_order.quantity, <<>>)
      IN  IF matched_orders = <<>> THEN NoMatch
          ELSE Matched(MatchParams(market_order, matched_orders))

match_order(market_order, opposite_direction_orders) ==
    IF market_order.order_type = "Limit" THEN NoMatch
    ELSE
      LET filtered == FilterOppositeDirection(market_order, opposite_direction_orders)
          sorted == sort_orders(filtered, market_order.direction)
          matched_orders == MatchingWalk(sorted, market_order.quantity, <<>>)
      IN  IF Len(matched_orders) > 1 THEN MatchError
          ELSE IF matched_orders = <<>> THEN NoMatch
          ELSE Matched(MatchParams(market_order, matched_orders))

\* The orders the pure functions are exercised with.  A candidate's id is its
\* position in the list; the market order's id is 0.
CandidateShapes ==
    [direction : Directions, order_type : OrderTypes, price : 1..MaxPrice,
     quantity : 1..MaxQuantity, timestamp : 0..MaxTimestamp]

CandidateAt(i, shape) ==
    [id |-> i, trader_id |-> 1 + (i % NumTraders), direction |-> shape.direction,
     order_type |-> shape.order_type, price |-> shape.price,
     quantity |-> shape.quantity, timestamp |-> shape.timestamp]

MarketOrders ==
    { [id |-> 0, trader_id |-> 1, direction |-> d, order_type |-> t, price |-> 0,
       quantity |-> q, timestamp |-> MaxTimestamp + 1]
      : d \in Directions, t \in OrderTypes, q \in 1..MaxQuantity }

MatchInit ==
    match_call = [pc |-> "build", book |-> <<>>, market_order |-> NoMatch,
                  sorted |-> <<>>, result |-> NoMatch]

MatchIdle == match_call = [pc |-> "idle"]

\* The caller puts one more order into the list it will pass.
AddCandidate ==
    /\ match_call.pc = "build"
    /\ Len(match_call.book) < MaxBook
    /\ \E shape \in CandidateShapes :
         match_call' =
            [match_call EXCEPT
               !.book = Append(@, CandidateAt(Len(match_call.book) + 1, shape))]
    /\ UNCHANGED <<fee_call, dlc_channels, revertVars, walletVars, tradingVars>>

\* The caller sorts the list for, and matches it with, a market order.
CallMatchOrder ==
    /\ match_call.pc = "build"
    /\ \E market_order \in MarketOrders :
         match_call' =
            [match_call EXCEPT
               !.pc = "done",
               !.market_order = market_order,
               !.sorted = sort_orders(match_call.book, market_order.direction),
               !.result = match_order(market_order, match_call.book)]
    /\ UNCHANGED <<fee_call, dlc_channels, revertVars, walletVars, tradingVars>>

(***************************************************************************)
(* db/dlc_channels.rs: the DLC channel store                               *)
(***************************************************************************)
MaxChannels == 2    \* rows in the table
NumChannelIds == 2  \* channel ids in use
NumTxids == 1       \* transaction ids in use

ProtocolIds == 1..MaxChannels
ChannelIds == 1..NumChannelIds
Txids == 1..NumTxids
Null == 0           \* a column that holds NULL
ReserveArgs == {<<2, 1>>}   \* (coordinator_reserve, trader_reserve) in sats

TerminalStates == {"Closed", "Failed", "Cancelled"}

\* The rows an update's filter selects.
ByProtocolId(protocol_id) ==
    {i \in 1..Len(dlc_channels) : dlc_channels[i].open_protocol_id = protocol_id}
ByChannelId(channel_id) ==
    {i \in 1..Len(dlc_channels) : dlc_channels[i].channel_id = channel_id}

\* dlc_channels.channel_id is UNIQUE: a statement that would leave two rows
\* with one channel id fails and changes nothing.
KeepsChannelIdUnique(table) ==
    \A i, j \in 1..Len(table) : table[i].channel_id = table[j].channel_id => i = j

\* diesel::update(..).set(..).filter(..).execute: every selected row gets the
\* assignments of `set`, a record of the columns assigned and their values.
UpdateRows(selected, assignments) ==
    LET updated == [i \in 1..Len(dlc_channels) |->
                       IF i \in selected
                       THEN [column \in DOMAIN dlc_channels[i] |->
                               IF column \in DOMAIN assignments
                               THEN assignments[column]
                               ELSE dlc_channels[i][column]]
                       ELSE dlc_channels[i]]
    IN  dlc_channels' = IF KeepsChannelIdUnique(updated) THEN updated ELSE dlc_channels

ChannelsUnchangedElse == UNCHANGED <<fee_call, match_call, revertVars, walletVars, tradingVars>>

\* The protocol id of a new channel is a fresh UUID: the next unused one.
insert_pending_dlc_channel ==
    /\ Len(dlc_channels) < MaxChannels
    /\ \E channel_id \in ChannelIds :
         LET inserted ==
               Append(dlc_channels,
                      [open_protocol_id |-> Len(dlc_channels) + 1,
                       channel_id |-> channel_id,
                       channel_state |-> "Pending",
                       coordinator_reserve_sats |-> 0,
                       trader_reserve_sats |-> 0,
                       funding_txid |-> Null, buffer_txid |-> Null,
                       settle_txid |-> Null, claim_txid |-> Null,
                       punish_txid |-> Null, close_txid |-> Null])
         IN  dlc_channels' = IF KeepsChannelIdUnique(inserted) THEN inserted ELSE dlc_channels
    /\ ChannelsUnchangedElse

set_dlc_channel_open ==
    /\ \E open_protocol_id \in ProtocolIds, channel_id \in ChannelIds,
          funding_txid \in Txids, reserves \in ReserveArgs :
         UpdateRows(ByProtocolId(open_protocol_id),
                    [funding_txid |-> funding_txid,
                     channel_id |-> channel_id,
                     channel_state |-> "Open",
                     coordinator_reserve_sats |-> reserves[1],
                     trader_reserve_sats |-> reserves[2]])
    /\ ChannelsUnchangedElse

\* A renew that also writes the channel's state.
update_channel_and_state_on_renew ==
    /\ \E channel_id \in ChannelIds, reserves \in ReserveArgs :
         UpdateRows(ByChannelId(channel_id),
                    [coordinator_reserve_sats |-> reserves[1],
                     trader_reserve_sats |-> reserves[2],
                     channel_state |-> "Open"])
    /\ ChannelsUnchangedElse

update_channel_on_renew ==
    /\ \E channel_id \in ChannelIds, reserves \in ReserveArgs :
         UpdateRows(ByChannelId(channel_id),
                    [coordinator_reserve_sats |-> reserves[1],
                     trader_reserve_sats |-> reserves[2]])
    /\ ChannelsUnchangedElse

set_channel_force_closing_settled ==
    /\ \E channel_id \in ChannelIds, settle_txid \in Txids, claim_txid \in Txids \cup {Null} :
         UpdateRows(ByChannelId(channel_id),
                    [settle_txid |-> settle_txid,
                     claim_txid |-> claim_txid,
                     channel_state |-> "Closing"])
    /\ ChannelsUnchangedElse

set_channel_force_closing ==
    /\ \E channel_id \in ChannelIds, buffer_txid \in Txids :
         UpdateRows(ByChannelId(channel_id),
                    [buffer_txid |-> buffer_txid,
                     channel_state |-> "Closing"])
    /\ ChannelsUnchangedElse

set_channel_punished ==
    /\ \E channel_id \in ChannelIds, punish_txid \in Txids :
         UpdateRows(ByChannelId(channel_id),
                    [punish_txid |-> punish_txid,
                     channel_state |-> "Closing"])
    /\ ChannelsUnchangedElse

set_channel_collab_closing ==
    /\ \E channel_id \in ChannelIds, close_txid \in Txids :
         UpdateRows(ByChannelId(channel_id),
                    [close_txid |-> close_txid,
                     channel_state |-> "Closing"])
    /\ ChannelsUnchangedElse

set_channel_collab_closed ==
    /\ \E channel_id \in ChannelIds, close_txid \in Txids :
         UpdateRows(ByChannelId(channel_id),
                    [close_txid |-> close_txid,
                     channel_state |-> "Closed"])
    /\ ChannelsUnchangedElse

set_channel_failed ==
    /\ \E protocol_id \in ProtocolIds :
         UpdateRows(ByProtocolId(protocol_id),
                    [channel_state |-> "Failed"])
    /\ ChannelsUnchangedElse

set_channel_cancelled ==
    /\ \E protocol_id \in ProtocolIds :
         UpdateRows(ByProtocolId(protocol_id),
                    [channel_state |-> "Cancelled"])
    /\ ChannelsUnchangedElse

ChannelsInit == dlc_channels = <<>>

(***************************************************************************)
(* collaborative_revert.rs: the collaborative revert protocol              *)
(***************************************************************************)
COLLABORATIVE_REVERT_TX_WEIGHT == 672

MaxBroadcasts == 2      \* transactions broadcast in one run

\* Channel ids 1..NumChannelIds are sub-channels the node knows; one more id
\* is used by callers and names no sub-channel.
RevertChannelIds == 1..(NumChannelIds + 1)
\* A lookup that finds a sub-channel under every id.
AnySubChannelExists(channel_id) == TRUE
SubChannelExists(channel_id) == channel_id \in ChannelIds

\* channel_details.counterparty.node_id / sub_channel.counter_party
CounterParty(channel_id) == 1 + ((channel_id - 1) % NumTraders)

NoRow == [present |-> FALSE]

\* An arithmetic result of the machine: the wrapped value, and whether the
\* exact value was out of range.
ArithU64(exact) == [overflow |-> exact < 0 \/ exact > UMax, v |-> AsU64(exact)]
ArithI64(exact) == [overflow |-> exact < IMin \/ exact > IMax, v |-> AsI64(exact)]

\* dlc::util::weight_to_fee: ceil(weight / 4) * fee_rate, an error when the
\* product does not fit into u64.
weight_to_fee(weight, fee_rate) ==
    LET vbytes == (weight + 3) \div 4
    IN  IF vbytes * fee_rate > UMax THEN None ELSE Some(vbytes * fee_rate)

\* Each side's share of the on-chain fee: `fee / 2` on u64.
HalfFee(fee) == fee \div 2

\* Lines 90-118 of notify_user_to_collaboratively_revert: the split of the
\* funding value.  `panicked` is set when an `expect` fails, or when an
\* operation overflows in a build with overflow checks; without them the
\* operation wraps.
RevertSplit(fund_value_satoshis, inbound_capacity, settlement_amount, dlc_channel_fee, fee_rate_sats_vb, checks) ==
    LET c1 == ArithI64(AsI64(fund_value_satoshis) - AsI64(inbound_capacity))
        c2 == ArithI64(c1.v - AsI64(settlement_amount))
        \* (dlc_channel_fee as f64 / 2.0) as i64
        c3 == ArithI64(c2.v - AsI64(dlc_channel_fee \div 2))
        coordinator_amount == c3.v
        t1 == ArithU64(fund_value_satoshis - AsU64(coordinator_amount))
        trader_amount == t1.v
        fee == weight_to_fee(COLLABORATIVE_REVERT_TX_WEIGHT, fee_rate_sats_vb)
        c4 == ArithU64(AsU64(coordinator_amount) - HalfFee(fee.v))
        t2 == ArithU64(trader_amount - HalfFee(fee.v))
        overflowed == c1.overflow \/ c2.overflow \/ c3.overflow \/ t1.overflow
                        \/ c4.overflow \/ t2.overflow
    IN  [panicked |-> ~fee.some \/ (checks /\ overflowed),
         fee |-> fee.v,
         coordinator_amount |-> c4.v,
         trader_amount |-> t2.v]

\* An insert that replaces the row of the channel.
InsertOrReplace(row) ==
    [ok |-> TRUE, table |-> [collaborative_reverts EXCEPT ![row.channel_id] = row]]

\* An insert that reports success and stores nothing.
InsertNothing(row) == [ok |-> TRUE, table |-> collaborative_reverts]

\* db::collaborative_reverts::insert: the table is keyed by channel id.
InsertCollaborativeRevert(row) ==
    IF collaborative_reverts[row.channel_id] = NoRow
    THEN [ok |-> TRUE, table |-> [collaborative_reverts EXCEPT ![row.channel_id] = row]]
    ELSE [ok |-> FALSE, table |-> collaborative_reverts]

\* What a propose call reads from the node and the position: the channel's
\* funding value and capacities (sats), the position's margins, the results
\* of calculate_settlement_amount and calculate_coordinator_pnl, and whether
\* the notifier's channel accepts the message.
ChannelDetails ==
    { [fund_value_satoshis |-> 200, inbound_capacity |-> 0, outbound_capacity |-> 0],
      [fund_value_satoshis |-> 1000, inbound_capacity |-> 300, outbound_capacity |-> 300],
      [fund_value_satoshis |-> 1000, inbound_capacity |-> 900, outbound_capacity |-> 0] }
TraderMargin == 100
CoordinatorMargin == 100
SettlementResults == {Ok(0), Ok(TraderMargin), Ok(TraderMargin + CoordinatorMargin), Err}
PnlResults == {Ok(0 - CoordinatorMargin), Ok(TraderMargin), Err}
FeeRates == {1, 2}

ProposeInputs ==
    [details : ChannelDetails, settlement : SettlementResults, pnl : PnlResults,
     fee_rate_sats_vb : FeeRates, notifier_open : BOOLEAN]

\* A smaller set for the runs of the whole protocol.
ProtocolProposeInputs ==
    [details : {[fund_value_satoshis |-> 1000, inbound_capacity |-> 300,
                 outbound_capacity |-> 300]},
     settlement : {Ok(0), Ok(TraderMargin)}, pnl : {Ok(0 - CoordinatorMargin)},
     fee_rate_sats_vb : {1}, notifier_open : BOOLEAN]

RevertUnchangedElse == UNCHANGED <<fee_call, match_call, dlc_channels, walletVars, tradingVars>>

ProposeFails(channel_id, in, outcome) ==
    /\ revert_call' = [op |-> "propose", channel_id |-> channel_id, in |-> in,
                       outcome |-> outcome, persisted |-> FALSE, notified |-> NoRow]
    /\ UNCHANGED <<overflow_checks, positions, collaborative_reverts, broadcasts>>

notify_user_to_collaboratively_revert(channel_id, in) ==
    LET trader == CounterParty(channel_id)
        dlc_channel_fee ==
            calculate_dlc_channel_tx_fees(
                in.details.fund_value_satoshis, in.pnl.v, in.details.inbound_capacity,
                in.details.outbound_capacity, TraderMargin, CoordinatorMargin)
        split == RevertSplit(in.details.fund_value_satoshis, in.details.inbound_capacity,
                             in.settlement.v, dlc_channel_fee.v, in.fee_rate_sats_vb,
                             overflow_checks)
        row == [present |-> TRUE,
                channel_id |-> channel_id,
                trader_pubkey |-> trader,
                coordinator_address |-> "coordinator",
                coordinator_amount_sats |-> split.coordinator_amount,
                trader_amount_sats |-> split.trader_amount]
        inserted == InsertCollaborativeRevert(row)
    IN  /\ IF ~SubChannelExists(channel_id) THEN ProposeFails(channel_id, in, "Err")
           ELSE IF positions[trader] = "None" THEN ProposeFails(channel_id, in, "Err")
           ELSE IF ~in.settlement.ok THEN ProposeFails(channel_id, in, "Err")
           ELSE IF ~in.pnl.ok THEN ProposeFails(channel_id, in, "Err")
           ELSE IF ~dlc_channel_fee.ok THEN ProposeFails(channel_id, in, "Err")
           ELSE IF split.panicked THEN ProposeFails(channel_id, in, "Panic")
           ELSE IF ~inserted.ok THEN ProposeFails(channel_id, in, "Err")
           ELSE /\ collaborative_reverts' = inserted.table
                /\ revert_call' =
                     [op |-> "propose", channel_id |-> channel_id, in |-> in,
                      outcome |-> IF in.notifier_open THEN "Ok" ELSE "Err",
                      persisted |-> TRUE,
                      notified |-> IF in.notifier_open THEN row ELSE NoRow]
                /\ UNCHANGED <<overflow_checks, positions, broadcasts>>
       /\ RevertUnchangedElse

\* The candidate transactions of confirm calls: the script each output pays to.
Scripts == {"coordinator", "foreign"}
CandidateTransactions == { <<>>, <<"foreign">>, <<"foreign", "coordinator">> }

\* Wallet::is_mine on one output: Ok(owned or not), or Err when the wallet's
\* database cannot be read.
is_mine(script, wallet_db_ok) ==
    IF wallet_db_ok THEN Ok(script = "coordinator") ELSE Err

\* The test confirm_collaborative_revert makes on the candidate's outputs:
\* `is_mine(..).is_ok()`.
HasOutputChecked(transaction, wallet_db_ok) ==
    \E i \in 1..Len(transaction) : is_mine(transaction[i], wallet_db_ok).ok

\* What a confirm call is given, and which of the node's services fail
\* during it: reading the wallet's database, signing, or broadcasting.
ConfirmFailures == {"none", "wallet_db", "signing", "broadcast"}
ConfirmInputs == [transaction : CandidateTransactions, failure : ConfirmFailures]

ConfirmEnds(channel_id, in, outcome, signed, broadcast) ==
    revert_call' = [op |-> "confirm", channel_id |-> channel_id, in |-> in,
                    outcome |-> outcome, signed |-> signed, broadcast |-> broadcast]

confirm_collaborative_revert(channel_id, in) ==
    LET trader == CounterParty(channel_id)
    IN  /\ IF ~HasOutputChecked(in.transaction, in.failure # "wallet_db")
           THEN /\ ConfirmEnds(channel_id, in, "Err", FALSE, FALSE)
                /\ UNCHANGED <<positions, broadcasts>>
           ELSE IF ~SubChannelExists(channel_id)
           THEN /\ ConfirmEnds(channel_id, in, "Err", FALSE, FALSE)
                /\ UNCHANGED <<positions, broadcasts>>
           ELSE IF positions[trader] = "None"
           THEN /\ ConfirmEnds(channel_id, in, "Err", FALSE, FALSE)
                /\ UNCHANGED <<positions, broadcasts>>
           ELSE IF in.failure = "signing"
           THEN /\ ConfirmEnds(channel_id, in, "Err", FALSE, FALSE)
                /\ UNCHANGED <<positions, broadcasts>>
           ELSE IF in.failure = "broadcast"
           THEN /\ ConfirmEnds(channel_id, in, "Err", TRUE, FALSE)
                /\ UNCHANGED <<positions, broadcasts>>
           ELSE /\ Len(broadcasts) < MaxBroadcasts
                /\ ConfirmEnds(channel_id, in, "Ok", TRUE, TRUE)
                /\ broadcasts' = Append(broadcasts,
                                        [channel_id |-> channel_id,
                                         transaction |-> in.transaction])
                /\ positions' = [positions EXCEPT ![trader] = "Closed"]
       /\ UNCHANGED <<overflow_checks, collaborative_reverts>>
       /\ RevertUnchangedElse

Propose == \E channel_id \in RevertChannelIds, in \in ProposeInputs :
              notify_user_to_collaboratively_revert(channel_id, in)

ProtocolPropose == \E channel_id \in RevertChannelIds, in \in ProtocolProposeInputs :
                      notify_user_to_collaboratively_revert(channel_id, in)

Confirm == \E channel_id \in RevertChannelIds, in \in ConfirmInputs :
              confirm_collaborative_revert(channel_id, in)

RevertInit ==
    /\ overflow_checks \in BOOLEAN
    /\ positions \in [Traders -> {"None", "Open"}]
    /\ collaborative_reverts = [c \in RevertChannelIds |-> NoRow]
    /\ broadcasts = <<>>
    /\ revert_call = [op |-> "none"]

RevertIdle ==
    /\ overflow_checks = FALSE
    /\ positions = [t \in Traders |-> "None"]
    /\ collaborative_reverts = [c \in RevertChannelIds |-> NoRow]
    /\ broadcasts = <<>>
    /\ revert_call = [op |-> "none"]

(***************************************************************************)
(* ldk_node_wallet.rs: the on-chain wallet and its reserved outpoints      *)
(***************************************************************************)
NumUtxos == 2           \* outpoints the wallet owns, each worth UtxoValue
UtxoValue == 1
MaxAmount == 2          \* largest amount a call asks for
NumWalletThreads == 2   \* threads calling into the wallet
MaxFlows == 3           \* funding flows started in one run

Outpoints == 1..NumUtxos
WalletThreads == 1..NumWalletThreads
Free == 0

Idle == [pc |-> "idle", amount |-> 0, should_lock |-> FALSE]

\* Vec::contains
Contains(vec, x) == \E i \in 1..Len(vec) : vec[i] = x

\* The sequences that hold each element of a set once: the orders in which a
\* selection's outpoints can come out.
RECURSIVE Orderings(_)
Orderings(set) ==
    IF set = {} THEN {<<>>}
    ELSE UNION { {<<x>> \o rest : rest \in Orderings(set \ {x})} : x \in set }

\* bdk::Wallet::list_unspent
list_unspent == {o \in Outpoints : o \notin bdk_spent}

\* A coin selection that settles for all the candidates when they do not
\* cover the amount.
SelectionsBestEffort(candidates, amount) ==
    {sel \in SUBSET candidates : Cardinality(sel) * UtxoValue >= amount \/ sel = candidates}

\* A coin selection (BDK's for build_psbt, bdk_coin_select's branch and bound
\* for DLC funding) picks some candidates that cover the amount, or fails
\* when none do.  An amount of 0 drains the wallet (send_to_address only).
Selections(candidates, amount) ==
    IF amount = 0
    THEN IF candidates = {} THEN {} ELSE {candidates}
    ELSE {sel \in SUBSET candidates : Cardinality(sel) * UtxoValue >= amount}

\* The candidates get_utxos_for_dlc_funding_transaction keeps: neither
\* reserved nor spent.
UnfilteredCandidates == list_unspent
UnreservedCandidates == {o \in list_unspent : ~Contains(locked_outpoints, o)}

\* A build_psbt that does not look at the reserved outpoints.
SpendableIgnoringReserved(locked_utxos) == list_unspent

\* build_psbt: the outpoints in locked_utxos are added as unspendable.
Spendable(locked_utxos) == {o \in list_unspent : ~Contains(locked_utxos, o)}

\* A sync that keeps the reserved outpoints.
ReservedKept == locked_outpoints

\* Wallet::sync clears the reserved outpoints.
ReservedAfterSync == <<>>

WalletUnchangedElse == UNCHANGED <<fee_call, match_call, dlc_channels, revertVars, tradingVars>>

SetThread(t, thread) == wallet_threads' = [wallet_threads EXCEPT ![t] = thread]
GoTo(t, pc) == SetThread(t, [wallet_threads[t] EXCEPT !.pc = pc])
\* The call is about to return `result` to the thread.
ReturnFrom(t, result) ==
    SetThread(t, [pc |-> "return", amount |-> wallet_threads[t].amount,
                  should_lock |-> wallet_threads[t].should_lock, result |-> result])

\* The funding flows started or about to be: a run starts at most MaxFlows.
FlowsInProgress ==
    Len(funding_flows)
      + Cardinality({t \in WalletThreads :
                       /\ wallet_threads[t].should_lock
                       /\ wallet_threads[t].pc \in {"create_lock", "create_build", "utxos_network",
                                                    "utxos_lock", "utxos_select"}})

\* A thread calls one of the wallet's operations.
Call(t) ==
    /\ wallet_threads[t].pc = "idle"
    /\ \/ SetThread(t, [pc |-> "sync_lock", amount |-> 0, should_lock |-> FALSE])
       \/ \E amount \in 1..MaxAmount :
            /\ FlowsInProgress < MaxFlows
            /\ SetThread(t, [pc |-> "create_lock", amount |-> amount, should_lock |-> TRUE])
       \/ \E amount \in 1..MaxAmount, should_lock \in BOOLEAN :
            /\ should_lock => FlowsInProgress < MaxFlows
            /\ SetThread(t, [pc |-> "utxos_network", amount |-> amount,
                             should_lock |-> should_lock])
       \/ \E amount \in 0..MaxAmount :
            SetThread(t, [pc |-> "send_lock", amount |-> amount, should_lock |-> FALSE])
       \/ \E amount \in 0..MaxAmount :
            SetThread(t, [pc |-> "fee_lock", amount |-> amount, should_lock |-> FALSE])
    /\ UNCHANGED <<bdk_spent, chain_spent, locked_outpoints, inner_owner, locked_owner,
                   funding_flows>>
    /\ WalletUnchangedElse

\* Wallet::sync, line 122: let wallet_lock = self.bdk_lock();
SyncLock(t) ==
    /\ wallet_threads[t].pc = "sync_lock"
    /\ inner_owner = Free
    /\ inner_owner' = t
    /\ GoTo(t, "sync_run")
    /\ UNCHANGED <<bdk_spent, chain_spent, locked_outpoints, locked_owner, funding_flows>>
    /\ WalletUnchangedElse

\* Wallet::sync, lines 128-130: the wallet's database takes over the
\* blockchain's view; the sync, or get_height, may fail, which ends the call.
SyncRun(t) ==
    /\ wallet_threads[t].pc = "sync_run"
    /\ \/ /\ bdk_spent' = chain_spent
          /\ GoTo(t, "sync_clear")
          /\ UNCHANGED inner_owner
       \/ /\ inner_owner' = Free
          /\ SetThread(t, Idle)
          /\ UNCHANGED bdk_spent
    /\ UNCHANGED <<chain_spent, locked_outpoints, locked_owner, funding_flows>>
    /\ WalletUnchangedElse

\* Wallet::sync, line 138: self.locked_outpoints.lock().clear(), then return.
SyncClear(t) ==
    /\ wallet_threads[t].pc = "sync_clear"
    /\ locked_owner = Free
    /\ locked_outpoints' = ReservedAfterSync
    /\ inner_owner' = Free
    /\ SetThread(t, Idle)
    /\ UNCHANGED <<bdk_spent, chain_spent, locked_owner, funding_flows>>
    /\ WalletUnchangedElse

\* create_funding_transaction line 153, send_to_address line 405,
\* calculate_fee line 374, get_utxos_for_dlc_funding_transaction line 215:
\* self.locked_outpoints.lock()
LockReserved(t) ==
    /\ wallet_threads[t].pc \in {"create_lock", "send_lock", "fee_lock", "utxos_lock"}
    /\ locked_owner = Free
    /\ locked_owner' = t
    /\ GoTo(t, CASE wallet_threads[t].pc = "create_lock" -> "create_build"
                  [] wallet_threads[t].pc = "send_lock" -> "send_build"
                  [] wallet_threads[t].pc = "fee_lock" -> "fee_build"
                  [] wallet_threads[t].pc = "utxos_lock" -> "utxos_select")
    /\ UNCHANGED <<bdk_spent, chain_spent, locked_outpoints, inner_owner, funding_flows>>
    /\ WalletUnchangedElse

\* A funding flow starts with the outpoints handed to it.
StartFlow(selection) ==
    funding_flows' = Append(funding_flows, [outpoints |-> selection, broadcast |-> FALSE])

\* create_funding_transaction, lines 154-171: build_psbt takes the BDK lock for
\* its duration; the transaction's inputs are appended to the reserved
\* outpoints.  Without a selection build_psbt fails and nothing is reserved.
CreateFundingBuild(t) ==
    /\ wallet_threads[t].pc = "create_build"
    /\ inner_owner = Free
    /\ LET choices == Selections(Spendable(locked_outpoints), wallet_threads[t].amount)
       IN  \/ /\ choices = {}
              /\ ReturnFrom(t, "Err")
              /\ UNCHANGED <<locked_outpoints, funding_flows>>
           \/ \E sel \in choices : \E prev_outpoints \in Orderings(sel) :
                   /\ locked_outpoints' = locked_outpoints \o prev_outpoints
                   /\ StartFlow(sel)
                   /\ ReturnFrom(t, "Ok")
    /\ locked_owner' = Free
    /\ UNCHANGED <<bdk_spent, chain_spent, inner_owner>>
    /\ WalletUnchangedElse

\* get_utxos_for_dlc_funding_transaction, lines 204-207: the BDK lock is taken
\* to read the network and released.
UtxosNetwork(t) ==
    /\ wallet_threads[t].pc = "utxos_network"
    /\ inner_owner = Free
    /\ GoTo(t, "utxos_lock")
    /\ UNCHANGED <<bdk_spent, chain_spent, locked_outpoints, inner_owner, locked_owner,
                   funding_flows>>
    /\ WalletUnchangedElse

\* get_utxos_for_dlc_funding_transaction, lines 217-312: get_utxos takes the
\* BDK lock; reserved and spent outpoints are filtered out; the selected
\* outpoints are pushed onto the reserved ones if should_lock_utxos.
UtxosSelect(t) ==
    /\ wallet_threads[t].pc = "utxos_select"
    /\ inner_owner = Free
    /\ LET choices == Selections(UnreservedCandidates, wallet_threads[t].amount)
       IN  \/ /\ choices = {}
              /\ ReturnFrom(t, "Err")
              /\ UNCHANGED <<locked_outpoints, funding_flows>>
           \/ /\ ~wallet_threads[t].should_lock
              /\ choices # {}
              /\ ReturnFrom(t, "Ok")
              /\ UNCHANGED <<locked_outpoints, funding_flows>>
           \/ /\ wallet_threads[t].should_lock
              /\ \E sel \in choices : \E selected \in Orderings(sel) :
                   /\ locked_outpoints' = locked_outpoints \o selected
                   /\ StartFlow(sel)
                   /\ ReturnFrom(t, "Ok")
    /\ locked_owner' = Free
    /\ UNCHANGED <<bdk_spent, chain_spent, inner_owner>>
    /\ WalletUnchangedElse

\* create_funding_transaction and get_utxos_for_dlc_funding_transaction
\* return to their caller.
WalletReturn(t) ==
    /\ wallet_threads[t].pc = "return"
    /\ SetThread(t, Idle)
    /\ UNCHANGED <<bdk_spent, chain_spent, locked_outpoints, inner_owner, locked_owner,
                   funding_flows>>
    /\ WalletUnchangedElse

\* send_to_address, lines 406-440: as create_funding_transaction, and the
\* transaction is broadcast at once; a failed broadcast ends the call with
\* the inputs reserved.
SendBuild(t) ==
    /\ wallet_threads[t].pc = "send_build"
    /\ inner_owner = Free
    /\ LET choices == Selections(Spendable(locked_outpoints), wallet_threads[t].amount)
       IN  \/ /\ choices = {}
              /\ UNCHANGED <<locked_outpoints, chain_spent>>
           \/ \E sel \in choices : \E prev_outpoints \in Orderings(sel) :
                /\ locked_outpoints' = locked_outpoints \o prev_outpoints
                /\ \/ /\ sel \cap chain_spent = {}
                      /\ chain_spent' = chain_spent \cup sel
                   \/ UNCHANGED chain_spent
    /\ locked_owner' = Free
    /\ SetThread(t, Idle)
    /\ UNCHANGED <<bdk_spent, inner_owner, funding_flows>>
    /\ WalletUnchangedElse

\* calculate_fee, lines 374-392: a PSBT is built under both locks and
\* dropped; nothing is reserved.
FeeBuild(t) ==
    /\ wallet_threads[t].pc = "fee_build"
    /\ inner_owner = Free
    /\ locked_owner' = Free
    /\ SetThread(t, Idle)
    /\ UNCHANGED <<bdk_spent, chain_spent, locked_outpoints, inner_owner, funding_flows>>
    /\ WalletUnchangedElse

\* The funding flow's transaction is broadcast (broadcast_transaction): the
\* blockchain accepts it unless one of its inputs is already spent.
BroadcastFunding ==
    /\ \E f \in 1..Len(funding_flows) :
         /\ ~funding_flows[f].broadcast
         /\ funding_flows[f].outpoints \cap chain_spent = {}
         /\ funding_flows' = [funding_flows EXCEPT ![f].broadcast = TRUE]
         /\ chain_spent' = chain_spent \cup funding_flows[f].outpoints
    /\ UNCHANGED <<bdk_spent, locked_outpoints, inner_owner, locked_owner, wallet_threads>>
    /\ WalletUnchangedElse

WalletInit ==
    /\ bdk_spent = {}
    /\ chain_spent = {}
    /\ locked_outpoints = <<>>
    /\ inner_owner = Free
    /\ locked_owner = Free
    /\ wallet_threads = [t \in WalletThreads |-> Idle]
    /\ funding_flows = <<>>

(***************************************************************************)
(* orderbook/trading.rs: the trading pipeline                              *)
(*                                                                         *)
(* The consumer of start() takes NewOrderMessages from the queue and       *)
(* spawns one process_new_order task for each; the tasks run concurrently  *)
(* and are interleaved at their database calls and channel sends.  An      *)
(* order's id is the number of the task that inserted it.  The database    *)
(* itself is taken to be available: pool.get and the queries succeed.      *)
(***************************************************************************)
MaxOrders == 3      \* NewOrderMessages consumed in one run
MaxTime == 1        \* the clock runs from 0 to MaxTime
MaxConcurrent == 2  \* tasks running at the same time

OrderIds == 1..MaxOrders
NoOrder == [present |-> FALSE]
NoParams == [kind |-> "none"]

\* The NewOrders submitted.  A limit order expires at time 0 or not before
\* the end of the run; market orders carry price 0.  A limit order with
\* price zero is rejected before any other field of it is read, so one such
\* order stands for all of them.
LimitPrice == 1
LimitDirections == {"Short"}    \* the makers sell; the takers buy or sell
OrderReasons == {"Manual"}
NewOrders ==
    { [trader_id |-> tr, direction |-> d, order_type |-> "Limit", price |-> LimitPrice,
       quantity |-> 1, expiry |-> e, order_reason |-> r]
      : tr \in Traders, d \in LimitDirections, e \in {0, MaxTime}, r \in OrderReasons }
    \cup
    { [trader_id |-> 1, direction |-> "Short", order_type |-> "Limit", price |-> 0,
       quantity |-> 1, expiry |-> MaxTime, order_reason |-> r] : r \in OrderReasons }
    \cup
    { [trader_id |-> tr, direction |-> d, order_type |-> "Market", price |-> 0,
       quantity |-> q, expiry |-> MaxTime, order_reason |-> r]
      : tr \in Traders, d \in Directions, q \in 1..MaxQuantity, r \in OrderReasons }

Present == {id \in OrderIds : orders_table[id] # NoOrder}

\* orders::set_expired_limit_orders_to_failed: the open limit orders past
\* their expiry.
ExpiredLimitOrders ==
    {id \in Present : /\ orders_table[id].order_type = "Limit"
                      /\ orders_table[id].order_state = "Open"
                      /\ orders_table[id].expiry < now}

\* orders::set_order_state, on a table
SetOrderState(table, ids, order_state) ==
    [id \in OrderIds |->
        IF id \in ids THEN [table[id] EXCEPT !.order_state = order_state] ELSE table[id]]

\* orders::insert: the row of a new order; its timestamp is the time of the
\* insertion, later than that of every row inserted before.
InsertedOrder(id, new_order) ==
    [present |-> TRUE, id |-> id, trader_id |-> new_order.trader_id,
     direction |-> new_order.direction, order_type |-> new_order.order_type,
     price |-> new_order.price, quantity |-> new_order.quantity,
     timestamp |-> Cardinality(Present), expiry |-> new_order.expiry,
     order_state |-> "Open", order_reason |-> new_order.order_reason]

\* orders::get_by_trader_id_and_state
get_by_trader_id_and_state(trader_id, order_state) ==
    {id \in Present : /\ orders_table[id].trader_id = trader_id
                      /\ orders_table[id].order_state = order_state}

\* A set of order ids as the list of their rows, in the order of the ids.
RECURSIVE RowsOf(_)
RowsOf(ids) ==
    IF ids = {} THEN <<>>
    ELSE LET first == CHOOSE id \in ids : \A other \in ids : id <= other
         IN  <<orders_table[first]>> \o RowsOf(ids \ {first})

\* orders::all_by_direction_and_type(direction, order_type, filter_expired = true)
all_by_direction_and_type(direction, order_type) ==
    RowsOf({id \in Present : /\ orders_table[id].direction = direction
                              /\ orders_table[id].order_type = order_type
                              /\ orders_table[id].order_state = "Open"})

\* MatchParams::matches: the taker's side, then the makers'.
MatchesOf(params) == <<params.taker_match>> \o params.makers_matches

\* matches::insert: one row for each Match of the side's FilledWith.
MatchRows(match_param) ==
    { [order_id |-> match_param.filled_with.order_id,
       match_order_id |-> match_param.filled_with.matches[i].order_id,
       quantity |-> match_param.filled_with.matches[i].quantity,
       execution_price |-> match_param.filled_with.matches[i].execution_price,
       counterparty |-> match_param.filled_with.matches[i].pubkey]
      : i \in 1..Len(match_param.filled_with.matches) }

\* The state an order gets after the attempt to notify its trader (lines
\* 242-262); `order` is the new order of the task.
StateAfterNotify(order, sent) ==
    IF sent THEN "Matched"
    ELSE IF order.order_type = "Limit" THEN "Taken" ELSE "Matched"

OkReply(id) == [ok |-> TRUE, error |-> "", order |-> id]
ErrReply(error) == [ok |-> FALSE, error |-> error, order |-> 0]
NoReply == [ok |-> FALSE, error |-> "pending", order |-> 0]

NoTask == [pc |-> "unspawned"]

TradingUnchangedElse == UNCHANGED <<fee_call, match_call, dlc_channels, revertVars, walletVars>>

SetTask(t, task) == tasks' = [tasks EXCEPT ![t] = task]
Step(t, pc) == SetTask(t, [tasks[t] EXCEPT !.pc = pc])
\* A task that ends without sending its result.
ReturnWithoutReply(t, reply) ==
    SetTask(t, [tasks[t] EXCEPT !.pc = "done", !.next = 1,
                                !.sent = FALSE, !.order_state = "Open", !.swept = {}])

\* The task returns: its result is sent on the message's reply channel.  The
\* send fails when the caller has dropped the receiver (reply_open is FALSE);
\* the failure is logged and the task ends all the same.
Return(t, reply) ==
    SetTask(t, [tasks[t] EXCEPT !.pc = "done", !.reply = reply, !.next = 1,
                                !.sent = FALSE, !.order_state = "Open", !.swept = {}])

Running == {t \in OrderIds : tasks[t] # NoTask /\ tasks[t].pc # "done"}

\* start(), lines 80-101: the consumer receives the next message and spawns
\* its task.
Spawn ==
    /\ \E t \in OrderIds :
         /\ tasks[t] = NoTask
         /\ \A earlier \in 1..(t - 1) : tasks[earlier] # NoTask
         /\ Cardinality(Running) < MaxConcurrent
         /\ \E new_order \in NewOrders :
              SetTask(t, [pc |-> "start", new_order |-> new_order, reply |-> NoReply,
                          matched |-> NoParams, next |-> 1, sent |-> FALSE,
                          order_state |-> "Open", reply_open |-> TRUE, swept |-> {}])
    /\ UNCHANGED <<orders_table, matches_table, price_feed, notifications, now>>
    /\ TradingUnchangedElse

\* The start of a task that does not look at the price.
ValidateAnyPrice(t) ==
    /\ tasks[t].pc = "start"
    /\ Step(t, "sweep")
    /\ UNCHANGED <<orders_table, matches_table, price_feed, notifications, now>>
    /\ TradingUnchangedElse

\* Lines 136-144: the connection is taken; a limit order with price zero is
\* rejected.
Validate(t) ==
    /\ tasks[t].pc = "start"
    /\ IF tasks[t].new_order.order_type = "Limit" /\ tasks[t].new_order.price = 0
       THEN Return(t, ErrReply("InvalidOrder"))
       ELSE Step(t, "sweep")
    /\ UNCHANGED <<orders_table, matches_table, price_feed, notifications, now>>
    /\ TradingUnchangedElse

\* The limit orders past their expiry, whatever their state.
PastExpiry == {id \in Present : orders_table[id].order_type = "Limit"
                                  /\ orders_table[id].expiry < now}

\* A task that goes on to the insertion without sweeping.
SweepNothing(t) ==
    /\ tasks[t].pc = "sweep"
    /\ SetTask(t, [tasks[t] EXCEPT !.pc = "insert", !.swept = PastExpiry])
    /\ UNCHANGED <<orders_table, matches_table, price_feed, notifications, now>>
    /\ TradingUnchangedElse

\* Lines 151-157: the expired limit orders are set to Failed and a
\* DeleteOrder is broadcast for each, in the order of the rows; a send on a
\* price feed without receivers fails and ends the task.  `swept` keeps the
\* orders that were past their expiry at the sweep.
Sweep(t) ==
    /\ tasks[t].pc = "sweep"
    /\ orders_table' = SetOrderState(orders_table, ExpiredLimitOrders, "Failed")
    /\ \E sent \in 0..Cardinality(ExpiredLimitOrders) :
         /\ price_feed' = price_feed \cup
               {[kind |-> "DeleteOrder", id |-> id] :
                  id \in {e \in ExpiredLimitOrders :
                            Cardinality({b \in ExpiredLimitOrders : b < e}) < sent}}
         /\ IF sent = Cardinality(ExpiredLimitOrders)
            THEN SetTask(t, [tasks[t] EXCEPT !.pc = "insert", !.swept = PastExpiry])
            ELSE Return(t, ErrReply("PriceFeed"))
    /\ UNCHANGED <<matches_table, notifications, now>>
    /\ TradingUnchangedElse

\* Lines 159-167: the order is inserted; a limit order is broadcast on the
\* price feed and the task is finished.
Insert(t) ==
    /\ tasks[t].pc = "insert"
    /\ orders_table' = [orders_table EXCEPT ![t] = InsertedOrder(t, tasks[t].new_order)]
    /\ IF tasks[t].new_order.order_type = "Limit"
       THEN \/ /\ price_feed' = price_feed \cup {[kind |-> "NewOrder", id |-> t]}
               /\ Return(t, OkReply(t))
            \/ /\ UNCHANGED price_feed
               /\ Return(t, ErrReply("PriceFeed"))
       ELSE /\ UNCHANGED price_feed
            /\ Step(t, "check")
    /\ UNCHANGED <<matches_table, notifications, now>>
    /\ TradingUnchangedElse

\* Lines 170-178: a market order is rejected when its trader has an order in
\* state Matched.
CheckInExecution(t) ==
    /\ tasks[t].pc = "check"
    /\ IF get_by_trader_id_and_state(orders_table[t].trader_id, "Matched") # {}
       THEN Return(t, ErrReply("InvalidOrder"))
       ELSE Step(t, "match")
    /\ UNCHANGED <<orders_table, matches_table, price_feed, notifications, now>>
    /\ TradingUnchangedElse

\* Lines 180-206: the open limit orders of the opposite direction are loaded
\* and matched with the order.
Match(t) ==
    /\ tasks[t].pc = "match"
    /\ LET opposite_direction_limit_orders ==
              all_by_direction_and_type(Opposite(orders_table[t].direction), "Limit")
           found == match_order(orders_table[t], opposite_direction_limit_orders)
       IN  SetTask(t, IF found.kind = "Match"
                      THEN [tasks[t] EXCEPT !.pc = "notify", !.matched = found.params,
                                            !.next = 1]
                      ELSE [tasks[t] EXCEPT !.pc = "fail", !.matched = found])
    /\ UNCHANGED <<orders_table, matches_table, price_feed, notifications, now>>
    /\ TradingUnchangedElse

\* The end of a task without a match that leaves the order as it is.
FailLeavesOrderOpen(t) ==
    /\ tasks[t].pc = "fail"
    /\ Return(t, ErrReply(IF tasks[t].matched = NoMatch THEN "NoMatchFound"
                          ELSE "FailedToMatch"))
    /\ UNCHANGED <<orders_table, matches_table, price_feed, notifications, now>>
    /\ TradingUnchangedElse

\* Lines 196-204: without a match the order is set to Failed and the task
\* ends with an error.
Fail(t) ==
    /\ tasks[t].pc = "fail"
    /\ orders_table' = SetOrderState(orders_table, {t}, "Failed")
    /\ Return(t, ErrReply(IF tasks[t].matched = NoMatch THEN "NoMatchFound"
                          ELSE "FailedToMatch"))
    /\ UNCHANGED <<matches_table, price_feed, notifications, now>>
    /\ TradingUnchangedElse

\* The notification of a side, were a failed send to end the task with the
\* error.
NotifyOrBail(t) ==
    /\ tasks[t].pc = "notify"
    /\ LET match_param == MatchesOf(tasks[t].matched)[tasks[t].next]
           message == [trader_id |-> match_param.trader_id,
                       order_id |-> match_param.filled_with.order_id,
                       kind |-> IF orders_table[t].order_reason = "Manual"
                                THEN "Match" ELSE "AsyncMatch"]
       IN  /\ matches_table' = matches_table \cup MatchRows(match_param)
           /\ \/ /\ notifications' = notifications \cup {message}
                 /\ SetTask(t, [tasks[t] EXCEPT !.pc = "set_state", !.sent = TRUE,
                                   !.order_state = StateAfterNotify(orders_table[t], TRUE)])
              \/ /\ UNCHANGED notifications
                 /\ Return(t, ErrReply("Notifier"))
    /\ UNCHANGED <<orders_table, price_feed, now>>
    /\ TradingUnchangedElse

\* Lines 216-262, for the next side of the match: its match is persisted and
\* its trader is sent a message; the send fails when the notifier's channel
\* is closed.
Notify(t) ==
    /\ tasks[t].pc = "notify"
    /\ LET match_param == MatchesOf(tasks[t].matched)[tasks[t].next]
           message == [trader_id |-> match_param.trader_id,
                       order_id |-> match_param.filled_with.order_id,
                       kind |-> IF orders_table[t].order_reason = "Manual"
                                THEN "Match" ELSE "AsyncMatch"]
       IN  /\ matches_table' = matches_table \cup MatchRows(match_param)
           /\ \/ /\ notifications' = notifications \cup {message}
                 /\ SetTask(t, [tasks[t] EXCEPT !.pc = "set_state", !.sent = TRUE,
                                   !.order_state = StateAfterNotify(orders_table[t], TRUE)])
              \/ /\ UNCHANGED notifications
                 /\ SetTask(t, [tasks[t] EXCEPT !.pc = "set_state", !.sent = FALSE,
                                   !.order_state = StateAfterNotify(orders_table[t], FALSE)])
    /\ UNCHANGED <<orders_table, price_feed, now>>
    /\ TradingUnchangedElse

\* A task that gives up, without writing the order state, when the caller has
\* dropped the reply channel.
SetStateWhileWanted(t) ==
    /\ tasks[t].pc = "set_state"
    /\ LET match_param == MatchesOf(tasks[t].matched)[tasks[t].next]
       IN  orders_table' =
             IF tasks[t].reply_open
             THEN SetOrderState(orders_table, {match_param.filled_with.order_id},
                                tasks[t].order_state)
             ELSE orders_table
    /\ IF ~tasks[t].reply_open
       THEN Return(t, ErrReply("Cancelled"))
       ELSE IF tasks[t].next < Len(MatchesOf(tasks[t].matched))
       THEN SetTask(t, [tasks[t] EXCEPT !.pc = "notify", !.next = @ + 1])
       ELSE Return(t, OkReply(t))
    /\ UNCHANGED <<matches_table, price_feed, notifications, now>>
    /\ TradingUnchangedElse

\* Line 266, and line 270 after the last side: the side's order gets its new
\* state.
SetState(t) ==
    /\ tasks[t].pc = "set_state"
    /\ LET match_param == MatchesOf(tasks[t].matched)[tasks[t].next]
       IN  orders_table' = SetOrderState(orders_table, {match_param.filled_with.order_id},
                                   tasks[t].order_state)
    /\ IF tasks[t].next < Len(MatchesOf(tasks[t].matched))
       THEN SetTask(t, [tasks[t] EXCEPT !.pc = "notify", !.next = @ + 1])
       ELSE Return(t, OkReply(t))
    /\ UNCHANGED <<matches_table, price_feed, notifications, now>>
    /\ TradingUnchangedElse

\* The caller of a message drops the receiver of its reply channel while the
\* task is running.
DropReply(t) ==
    /\ t \in Running
    /\ tasks[t].reply_open
    /\ SetTask(t, [tasks[t] EXCEPT !.reply_open = FALSE])
    /\ UNCHANGED <<orders_table, matches_table, price_feed, notifications, now>>
    /\ TradingUnchangedElse

\* Time passes.
Tick ==
    /\ now < MaxTime
    /\ now' = now + 1
    /\ UNCHANGED <<orders_table, matches_table, price_feed, notifications, tasks>>
    /\ TradingUnchangedElse

TradingInit ==
    /\ orders_table = [id \in OrderIds |-> NoOrder]
    /\ matches_table = {}
    /\ price_feed = {}
    /\ notifications = {}
    /\ tasks = [t \in OrderIds |-> NoTask]
    /\ now = 0

(***************************************************************************)
(* Specifications                                                          *)
(***************************************************************************)
InitFees == FeeInit /\ MatchIdle /\ ChannelsInit /\ RevertIdle /\ WalletInit /\ TradingInit
NextFees == CalculateFees
SpecFees == InitFees /\ [][NextFees]_vars

InitMatch == MatchInit /\ FeeIdle /\ ChannelsInit /\ RevertIdle /\ WalletInit /\ TradingInit
NextMatch == AddCandidate \/ CallMatchOrder
SpecMatch == InitMatch /\ [][NextMatch]_vars

InitChannels == ChannelsInit /\ FeeIdle /\ MatchIdle /\ RevertIdle /\ WalletInit /\ TradingInit
NextChannels ==
    \/ insert_pending_dlc_channel
    \/ set_dlc_channel_open
    \/ update_channel_on_renew
    \/ set_channel_force_closing_settled
    \/ set_channel_force_closing
    \/ set_channel_punished
    \/ set_channel_collab_closing
    \/ set_channel_collab_closed
    \/ set_channel_failed
    \/ set_channel_cancelled
SpecChannels == InitChannels /\ [][NextChannels]_vars

\* The propose phase alone, over the whole range of its inputs.
InitPropose == RevertInit /\ FeeIdle /\ MatchIdle /\ ChannelsInit /\ WalletInit /\ TradingInit
NextPropose == revert_call.op = "none" /\ Propose
SpecPropose == InitPropose /\ [][NextPropose]_vars

\* Both phases of the revert protocol.
InitRevert == RevertInit /\ FeeIdle /\ MatchIdle /\ ChannelsInit /\ WalletInit /\ TradingInit
NextRevert == ProtocolPropose \/ Confirm
SpecRevert == InitRevert /\ [][NextRevert]_vars

\* The wallet, called from several threads.
InitWallet == WalletInit /\ FeeIdle /\ MatchIdle /\ ChannelsInit /\ RevertIdle /\ TradingInit
NextWallet ==
    \/ \E t \in WalletThreads :
         \/ Call(t)
         \/ SyncLock(t)
         \/ SyncRun(t)
         \/ SyncClear(t)
         \/ LockReserved(t)
         \/ CreateFundingBuild(t)
         \/ UtxosNetwork(t)
         \/ UtxosSelect(t)
         \/ SendBuild(t)
         \/ FeeBuild(t)
         \/ WalletReturn(t)
    \/ BroadcastFunding
SpecWallet == InitWallet /\ [][NextWallet]_vars

\* The trading pipeline: the consumer and the tasks it spawned.
InitTrading == TradingInit /\ FeeIdle /\ MatchIdle /\ ChannelsInit /\ RevertIdle /\ WalletInit
NextTrading ==
    \/ Spawn
    \/ \E t \in OrderIds :
         \/ Validate(t)
         \/ Sweep(t)
         \/ Insert(t)
         \/ CheckInExecution(t)
         \/ Match(t)
         \/ Fail(t)
         \/ Notify(t)
         \/ SetState(t)
    \/ Tick
SpecTrading == InitTrading /\ [][NextTrading]_vars

\* The trading pipeline with callers that give up on their reply: one maker
\* whose limit orders do or do not expire, and one taker.
ReplyOrders ==
    {new_order \in NewOrders :
        \/ new_order.order_type = "Limit" /\ new_order.trader_id = 1 /\ new_order.price > 0
        \/ /\ new_order.order_type = "Market" /\ new_order.trader_id = 2
           /\ new_order.direction = "Long"}
SpawnReplyOrder ==
    Spawn /\ \A t \in OrderIds : tasks'[t] # NoTask => tasks'[t].new_order \in ReplyOrders
NextReply ==
    \/ SpawnReplyOrder
    \/ \E t \in OrderIds :
         \/ Validate(t)
         \/ Sweep(t)
         \/ Insert(t)
         \/ CheckInExecution(t)
         \/ Match(t)
         \/ Fail(t)
         \/ Notify(t)
         \/ SetState(t)
         \/ DropReply(t)
    \/ Tick
SpecReply == InitTrading /\ [][NextReply]_vars

\* The steps of the task of message t.  The tokio runtime keeps polling the
\* spawned tasks whose database call or channel send can complete: while a
\* task can make a step, some task makes one.
TaskStep(t) ==
    \/ Validate(t)
    \/ Sweep(t)
    \/ Insert(t)
    \/ CheckInExecution(t)
    \/ Match(t)
    \/ Fail(t)
    \/ Notify(t)
    \/ SetState(t)
NextFair == SpawnReplyOrder \/ (\E t \in OrderIds : TaskStep(t)) \/ Tick
SpecFair == InitTrading /\ [][NextFair]_vars /\ WF_vars(\E t \in OrderIds : TaskStep(t))

(***************************************************************************)
(* Claims                                                                  *)
(***************************************************************************)
\* C4: once a row's channel_state is Closed, Failed or Cancelled, no
\* operation of the channel store changes it.
C4_TerminalStateIsFinal ==
    [][\A i \in 1..Len(dlc_channels) :
          dlc_channels[i].channel_state \in TerminalStates
            => dlc_channels'[i].channel_state = dlc_channels[i].channel_state]_vars

\* The sum the fee is the remainder of.
FeeDeductions(a) ==
    a.inbound_capacity + a.outbound_capacity
      + (a.trader_margin - a.pnl) + (a.coordinator_margin + a.pnl)

\* C5: calculate_dlc_channel_tx_fees returns initial_funding minus the
\* deductions whenever initial_funding covers them, and an error otherwise.
C5_FeeIsDifferenceOrError ==
    fee_call.pc = "done" =>
        IF fee_call.args.initial_funding >= FeeDeductions(fee_call.args)
        THEN fee_call.result = Ok(fee_call.args.initial_funding - FeeDeductions(fee_call.args))
        ELSE fee_call.result = Err

\* Whether sequence t is a permutation of sequence s.
IsPermutation(s, t) ==
    /\ Len(s) = Len(t)
    /\ \A x \in {s[i] : i \in 1..Len(s)} :
          Cardinality({i \in 1..Len(s) : s[i] = x}) = Cardinality({i \in 1..Len(t) : t[i] = x})

\* C9: sort_orders returns a permutation of its input in which adjacent
\* orders are in price order for the market direction (ascending for Long,
\* descending for Short) and, at equal prices, in ascending timestamp order.
C9_SortedByPriceThenTime ==
    match_call.pc = "done" =>
        LET sorted == match_call.sorted
            dir == match_call.market_order.direction
        IN  /\ IsPermutation(match_call.book, sorted)
            /\ \A i \in 1..(Len(sorted) - 1) :
                  /\ dir = "Long" => sorted[i].price <= sorted[i + 1].price
                  /\ dir = "Short" => sorted[i].price >= sorted[i + 1].price
                  /\ sorted[i].price = sorted[i + 1].price
                        => sorted[i].timestamp <= sorted[i + 1].timestamp

\* C9's case: a Short sort of three orders that arrive out of order, two of
\* them at the same price with different timestamps.
C9_Witness ==
    /\ match_call.pc = "done"
    /\ match_call.market_order.direction = "Short"
    /\ Len(match_call.book) = 3
    /\ match_call.book[1].price < match_call.book[2].price
    /\ match_call.book[3].price = match_call.book[1].price
    /\ match_call.book[3].timestamp < match_call.book[1].timestamp
    /\ match_call.sorted # match_call.book

\* The maker order of a match result.
MakerOf(result) == result.params.makers_matches[1].filled_with.order_id

\* C10: match_order never returns a maker of the market order's direction,
\* and returns NoMatch when every candidate has the market order's direction.
C10_NeverMatchesSameDirection ==
    match_call.pc = "done" =>
        LET market == match_call.market_order
            book == match_call.book
        IN  /\ match_call.result.kind = "Match"
                  => book[MakerOf(match_call.result)].direction # market.direction
            /\ (\A i \in 1..Len(book) : book[i].direction = market.direction)
                  => match_call.result = NoMatch

\* C10's case: a match returned from a list that also holds an order of the
\* market order's direction.
C10_Witness ==
    /\ match_call.pc = "done"
    /\ match_call.market_order.order_type = "Market"
    /\ Len(match_call.book) = 2
    /\ match_call.book[1].direction = match_call.market_order.direction
    /\ match_call.result.kind = "Match"

\* C2: an outpoint handed to a funding flow whose transaction has not been
\* broadcast is not handed to a second funding flow.
C2_NoOutpointInTwoPendingFlows ==
    \A f, g \in 1..Len(funding_flows) :
        (f # g /\ ~funding_flows[f].broadcast /\ ~funding_flows[g].broadcast)
            => funding_flows[f].outpoints \cap funding_flows[g].outpoints = {}

\* C1: in every reachable state, under any interleaving of the
\* process_new_order tasks, each trader has at most one order in state
\* Matched.
C1_AtMostOneMatchedPerTrader ==
    \A trader \in Traders :
        Cardinality(get_by_trader_id_and_state(trader, "Matched")) <= 1

\* An output pays the coordinator when the wallet owns its script.
PaysCoordinator(transaction) ==
    \E i \in 1..Len(transaction) : transaction[i] = "coordinator"

\* C3: confirm_collaborative_revert rejects every candidate transaction that
\* has no output paying to an address the coordinator owns: the call ends
\* with an error and the transaction is neither signed nor broadcast.
C3_RejectsTransactionNotPayingCoordinator ==
    (revert_call.op = "confirm" /\ ~PaysCoordinator(revert_call.in.transaction))
        => /\ revert_call.outcome = "Err"
           /\ ~revert_call.signed
           /\ ~revert_call.broadcast

\* The split of a propose call in exact integers: each side's amount before
\* the on-chain fee, and the on-chain fee.
ExactDlcChannelFee(in) ==
    in.details.fund_value_satoshis - in.details.inbound_capacity
      - in.details.outbound_capacity - (TraderMargin - in.pnl.v) - (CoordinatorMargin + in.pnl.v)
ExactCoordinatorAmount(in) ==
    in.details.fund_value_satoshis - in.details.inbound_capacity - in.settlement.v
      - (ExactDlcChannelFee(in) \div 2)
ExactTraderAmount(in) == in.details.fund_value_satoshis - ExactCoordinatorAmount(in)
OnchainFee(in) == (COLLABORATIVE_REVERT_TX_WEIGHT \div 4) * in.fee_rate_sats_vb
HalfFeeRoundedUp(fee) == (fee + 1) \div 2

\* The call computed a split: it found the channel and the position, and the
\* settlement amount, the pnl and the channel's fees were calculated.
ReachedSplit ==
    /\ revert_call.op = "propose"
    /\ SubChannelExists(revert_call.channel_id)
    /\ positions[CounterParty(revert_call.channel_id)] # "None"
    /\ revert_call.in.settlement.ok
    /\ revert_call.in.pnl.ok
    /\ ExactDlcChannelFee(revert_call.in) >= 0

\* C6: for every proposal a propose call persists, coordinator_amount +
\* trader_amount + onchain_fee = funding_value, and each side's amount is its
\* amount before the fee reduced by ceil(onchain_fee / 2).
C6_AmountsAndFeeAddUp ==
    (revert_call.op = "propose" /\ revert_call.persisted)
        => LET in == revert_call.in
               row == collaborative_reverts[revert_call.channel_id]
           IN  /\ row.coordinator_amount_sats + row.trader_amount_sats + OnchainFee(in)
                     = in.details.fund_value_satoshis
               /\ row.coordinator_amount_sats
                     = ExactCoordinatorAmount(in) - HalfFeeRoundedUp(OnchainFee(in))
               /\ row.trader_amount_sats
                     = ExactTraderAmount(in) - HalfFeeRoundedUp(OnchainFee(in))

\* C7: every subtraction of the split is overflow-checked: when the
\* coordinator's amount before the fee would be negative, or a side's amount
\* smaller than its half of the on-chain fee, the propose call fails and
\* persists no proposal; every persisted proposal has both amounts within
\* 0..funding_value.
C7_SplitIsOverflowChecked ==
    ReachedSplit
        => LET in == revert_call.in
               row == collaborative_reverts[revert_call.channel_id]
               half == HalfFeeRoundedUp(OnchainFee(in))
           IN  /\ (\/ ExactCoordinatorAmount(in) < half
                   \/ ExactTraderAmount(in) < half)
                    => (revert_call.outcome # "Ok" /\ ~revert_call.persisted)
               /\ revert_call.persisted
                    => /\ row.coordinator_amount_sats \in 0..in.details.fund_value_satoshis
                       /\ row.trader_amount_sats \in 0..in.details.fund_value_satoshis

\* The market order of task t is about to be matched, and more than one
\* maker would be consumed: its quantity exceeds that of the best-priced
\* open limit order of the opposite direction, and there are further ones.
NeedsMoreThanOneMaker(t) ==
    /\ tasks[t] # NoTask
    /\ tasks[t].pc = "match"
    /\ LET candidates ==
              sort_orders(all_by_direction_and_type(Opposite(orders_table[t].direction), "Limit"),
                          orders_table[t].direction)
       IN  /\ Len(candidates) > 1
           /\ orders_table[t].quantity > candidates[1].quantity

\* C8: a market order that needs more than one maker makes match_order fail
\* with an error instead of matching the best maker alone, and
\* process_new_order then sets the inserted market order to Failed and
\* replies with an error.
C8_MultiMakerOrderFails ==
    [][\A t \in OrderIds :
         /\ (NeedsMoreThanOneMaker(t) /\ tasks'[t] # tasks[t])
              => (tasks'[t].pc = "fail" /\ tasks'[t].matched = MatchError)
         /\ (tasks[t] # NoTask /\ tasks[t].pc = "fail" /\ tasks[t].matched = MatchError
               /\ tasks'[t] # tasks[t])
              => /\ orders_table'[t].order_state = "Failed"
                 /\ tasks'[t].pc = "done"
                 /\ ~tasks'[t].reply.ok
                 /\ tasks'[t].reply.error = "FailedToMatch"]_vars

C8_Witness ==
    \E t \in OrderIds :
        /\ tasks[t] # NoTask
        /\ tasks[t].pc = "done"
        /\ tasks[t].matched = MatchError
        /\ tasks[t].new_order.quantity > 1
        /\ tasks[t].reply = ErrReply("FailedToMatch")
        /\ orders_table[t].order_state = "Failed"
        /\ Cardinality({id \in Present : orders_table[id].order_type = "Limit"}) > 1

\* C11: every MatchParams match_order returns has exactly one maker; the
\* taker is filled with exactly one Match, which names the maker's order, the
\* maker with exactly one Match, which names the market order; both carry the
\* market order's quantity and the maker's limit price.
C11_OneMakerSameQuantityAndPrice ==
    (match_call.pc = "done" /\ match_call.result.kind = "Match")
        => LET market == match_call.market_order
               taker == match_call.result.params.taker_match.filled_with
               makers == match_call.result.params.makers_matches
           IN  /\ Len(makers) = 1
               /\ Len(taker.matches) = 1
               /\ Len(makers[1].filled_with.matches) = 1
               /\ LET maker == makers[1].filled_with
                      maker_order == match_call.book[maker.order_id]
                  IN  /\ taker.order_id = market.id
                      /\ taker.matches[1].order_id = maker.order_id
                      /\ maker.matches[1].order_id = market.id
                      /\ taker.matches[1].quantity = market.quantity
                      /\ maker.matches[1].quantity = market.quantity
                      /\ taker.matches[1].execution_price = maker_order.price
                      /\ maker.matches[1].execution_price = maker_order.price

\* C11's case: a match returned from a list of several opposite orders at
\* different prices, with a maker whose quantity differs from the market
\* order's.
C11_Witness ==
    /\ match_call.pc = "done"
    /\ match_call.result.kind = "Match"
    /\ Len(match_call.book) = 3
    /\ \A i \in 1..3 : match_call.book[i].direction # match_call.market_order.direction
    /\ match_call.book[1].price # match_call.book[2].price
    /\ match_call.book[MakerOf(match_call.result)].quantity
          # match_call.market_order.quantity

\* Task t was spawned for a limit order with price zero.
ZeroPriceLimit(t) ==
    /\ tasks[t] # NoTask
    /\ tasks[t].new_order.order_type = "Limit"
    /\ tasks[t].new_order.price = 0

\* C12: a new limit order with price 0 is rejected with an InvalidOrder error
\* before anything else happens: the task's only step ends it with that
\* error and leaves the orders table, the matches table, the price feed and
\* the notifications as they were, and no row is ever inserted for it.
C12_ZeroPriceLimitRejectedFirst ==
    [][\A t \in OrderIds :
         /\ (ZeroPriceLimit(t) /\ tasks'[t] # tasks[t])
              => /\ tasks[t].pc = "start"
                 /\ tasks'[t].pc = "done"
                 /\ tasks'[t].reply = ErrReply("InvalidOrder")
                 /\ UNCHANGED <<orders_table, matches_table, price_feed, notifications>>
         /\ ZeroPriceLimit(t)
              => /\ orders_table'[t] = NoOrder
                 /\ [kind |-> "NewOrder", id |-> t] \notin price_feed']_vars

\* C12's case: a zero-price limit order was rejected while an expired limit
\* order was waiting to be swept.
C12_Witness ==
    \E t \in OrderIds :
        /\ ZeroPriceLimit(t)
        /\ tasks[t].pc = "done"
        /\ tasks[t].reply = ErrReply("InvalidOrder")
        /\ ExpiredLimitOrders # {}

\* C13: every limit order with non-zero price that process_new_order has
\* inserted is broadcast as NewOrder on the price feed and returned in a
\* success reply; the task of a limit order never reaches the matcher, the
\* match records or the notifier.
C13_InsertedLimitIsBroadcastAndReturned ==
    \A t \in OrderIds :
        (tasks[t] # NoTask /\ tasks[t].new_order.order_type = "Limit")
            => /\ tasks[t].pc \in {"start", "sweep", "insert", "done"}
               /\ (tasks[t].pc = "done" /\ orders_table[t] # NoOrder)
                    => /\ [kind |-> "NewOrder", id |-> t] \in price_feed
                       /\ tasks[t].reply = OkReply(t)

\* The order of the side task t is notifying, or has just tried to notify.
SideOrderId(t) == MatchesOf(tasks[t].matched)[tasks[t].next].filled_with.order_id

\* C14: after the attempt to notify a side of the match, the side's order is
\* set to Matched when the send succeeded, to Taken when it failed for the
\* maker's limit order, and to Matched when it failed for the taker's market
\* order.
C14_FailedMakerNotificationSetsTaken ==
    [][\A t \in OrderIds :
         (tasks[t] # NoTask /\ tasks[t].pc = "set_state" /\ tasks'[t] # tasks[t])
            => orders_table'[SideOrderId(t)].order_state
                 = IF tasks[t].sent THEN "Matched"
                   ELSE IF orders_table[SideOrderId(t)].order_type = "Limit"
                        THEN "Taken"
                        ELSE "Matched"]_vars

\* The market order of task t is about to be matched and no open limit order
\* of the opposite direction exists.
NoOppositeLimitOrder(t) ==
    /\ tasks[t] # NoTask
    /\ tasks[t].pc = "match"
    /\ all_by_direction_and_type(Opposite(orders_table[t].direction), "Limit") = <<>>

\* The match records of order id.
MatchRecordsOf(table, id) == {row \in table : row.order_id = id \/ row.match_order_id = id}

\* C15: a market order processed while no open limit order of the opposite
\* direction exists gets NoMatch; process_new_order then sets the order to
\* Failed and replies with NoMatchFound, and persists no match record and
\* notifies no trader.
C15_NoOppositeOrderFailsWithNoMatchFound ==
    [][\A t \in OrderIds :
         /\ (NoOppositeLimitOrder(t) /\ tasks'[t] # tasks[t])
              => /\ tasks'[t].pc = "fail"
                 /\ tasks'[t].matched = NoMatch
                 /\ UNCHANGED <<orders_table, matches_table, notifications>>
         /\ (tasks[t] # NoTask /\ tasks[t].pc = "fail" /\ tasks[t].matched = NoMatch
               /\ tasks'[t] # tasks[t])
              => /\ orders_table'[t].order_state = "Failed"
                 /\ tasks'[t].pc = "done"
                 /\ tasks'[t].reply = ErrReply("NoMatchFound")
                 /\ UNCHANGED <<matches_table, notifications>>
         /\ (tasks[t] # NoTask /\ tasks[t].matched = NoMatch)
              => MatchRecordsOf(matches_table', t) = {}]_vars

\* C15's case: a market order ended with NoMatchFound and in state Failed
\* while the book held an open limit order of its own direction.
C15_Witness ==
    \E t \in OrderIds :
        /\ tasks[t] # NoTask
        /\ tasks[t].pc = "done"
        /\ tasks[t].matched = NoMatch
        /\ tasks[t].reply = ErrReply("NoMatchFound")
        /\ orders_table[t].order_state = "Failed"
        /\ all_by_direction_and_type(orders_table[t].direction, "Limit") # <<>>

\* C16: whenever a task that has inserted its order ends with an error
\* reply, the inserted order is in state Failed when the task ends.
C16_ErrorReplyLeavesOrderFailed ==
    [][\A t \in OrderIds :
         (/\ tasks[t] # NoTask
          /\ tasks[t].pc # "done"
          /\ tasks'[t].pc = "done"
          /\ ~tasks'[t].reply.ok
          /\ orders_table'[t] # NoOrder)
            => orders_table'[t].order_state = "Failed"]_vars

\* The sides of the match task t found.
SidesOf(t) == MatchesOf(tasks[t].matched)

\* Task t has got, or is getting, a match for its market order.
HasMatch(t) == tasks[t] # NoTask /\ tasks[t].matched \notin {NoParams, NoMatch, MatchError}

\* C17: a failed send on the notification channel is not fatal to the task:
\* after the attempt for one side the task goes on to set that side's order
\* state, with the side's match records persisted; it then turns to the next
\* side, and after the last it replies with success, with the match records
\* of every side persisted and the taker's and the maker's order out of Open.
C17_FailedNotificationIsNotFatal ==
    [][\A t \in OrderIds :
         /\ (HasMatch(t) /\ tasks[t].pc = "notify" /\ tasks'[t] # tasks[t])
              => /\ tasks'[t].pc = "set_state"
                 /\ MatchRows(SidesOf(t)[tasks[t].next]) \subseteq matches_table'
         /\ (HasMatch(t) /\ tasks[t].pc = "set_state" /\ tasks'[t] # tasks[t])
              => /\ orders_table'[SideOrderId(t)].order_state # "Open"
                 /\ IF tasks[t].next < Len(SidesOf(t))
                    THEN tasks'[t].pc = "notify" /\ tasks'[t].next = tasks[t].next + 1
                    ELSE tasks'[t].pc = "done" /\ tasks'[t].reply = OkReply(t)
         /\ (HasMatch(t) /\ tasks'[t].pc = "done")
              => /\ tasks'[t].reply = OkReply(t)
                 /\ \A i \in 1..Len(SidesOf(t)) :
                       /\ MatchRows(SidesOf(t)[i]) \subseteq matches_table'
                       /\ orders_table'[SidesOf(t)[i].filled_with.order_id].order_state # "Open"]_vars

\* C17's case: a task has replied with success although neither the taker
\* nor the maker could be notified.
C17_Witness ==
    \E t \in OrderIds :
        /\ HasMatch(t)
        /\ tasks[t].pc = "done"
        /\ tasks[t].reply = OkReply(t)
        /\ \A i \in 1..Len(SidesOf(t)) :
              /\ \A message \in notifications :
                    message.order_id # SidesOf(t)[i].filled_with.order_id
              /\ orders_table[SidesOf(t)[i].filled_with.order_id].order_state = "Matched"
              /\ MatchRows(SidesOf(t)[i]) \subseteq matches_table

\* A step in which a thread returns from a successful Wallet::sync.
SyncSucceeds ==
    \E t \in WalletThreads :
        wallet_threads[t].pc = "sync_clear" /\ wallet_threads'[t].pc = "idle"

C19_NoOutpointReservedTwice ==
    \A i, j \in 1..Len(locked_outpoints) :
        locked_outpoints[i] = locked_outpoints[j] => i = j

\* C19's case: two funding flows have reserved their outpoints one after the
\* other, and the store holds every outpoint of the wallet.
C19_Witness ==
    /\ Len(funding_flows) = 2
    /\ funding_flows[1].outpoints # funding_flows[2].outpoints
    /\ {locked_outpoints[i] : i \in 1..Len(locked_outpoints)} = Outpoints

\* The row of the channel a propose call was made for.
PersistedRow == collaborative_reverts[revert_call.channel_id]

\* C20: a propose call that notified the trader had persisted the
\* CollaborativeRevert row first, and the coordinator address and the amounts
\* of the message are the persisted ones; a propose call whose notification
\* could not be sent returns an error and leaves the row persisted.
C20_ProposalPersistedBeforeNotified ==
    revert_call.op = "propose" =>
        /\ revert_call.notified # NoRow
             => /\ revert_call.persisted
                /\ PersistedRow.present
                /\ PersistedRow.coordinator_address = revert_call.notified.coordinator_address
                /\ PersistedRow.coordinator_amount_sats = revert_call.notified.coordinator_amount_sats
                /\ PersistedRow.trader_amount_sats = revert_call.notified.trader_amount_sats
        /\ (revert_call.persisted /\ ~revert_call.in.notifier_open)
             => /\ revert_call.outcome = "Err"
                /\ revert_call.notified = NoRow
                /\ PersistedRow.present
                /\ PersistedRow.channel_id = revert_call.channel_id

\* C20's case: the insert was made, the notifier's channel was closed, the
\* call returned an error and the row is in the table.
C20_Witness ==
    /\ revert_call.op = "propose"
    /\ revert_call.persisted
    /\ ~revert_call.in.notifier_open
    /\ revert_call.outcome = "Err"
    /\ PersistedRow.present

\* A step that is a propose call.
ProposeCalled == revert_call' # revert_call /\ revert_call'.op = "propose"

\* C21: the table holds at most one row per channel id, the row of that
\* channel; a propose call for a channel that has a row fails, leaves the
\* table as it was and sends no notification.
C21_OneProposalPerChannel ==
    [][/\ \A c \in RevertChannelIds :
            collaborative_reverts'[c].present => collaborative_reverts'[c].channel_id = c
       /\ (ProposeCalled /\ collaborative_reverts[revert_call'.channel_id].present)
            => /\ revert_call'.outcome # "Ok"
               /\ revert_call'.notified = NoRow
               /\ collaborative_reverts' = collaborative_reverts]_vars

\* C21's case: a propose call that got as far as the insert, for a channel
\* whose row was already there, has failed.
C21_Witness ==
    /\ revert_call.op = "propose"
    /\ SubChannelExists(revert_call.channel_id)
    /\ positions[CounterParty(revert_call.channel_id)] # "None"
    /\ revert_call.outcome = "Err"
    /\ ~revert_call.persisted
    /\ collaborative_reverts[revert_call.channel_id].present

\* A step of confirm_collaborative_revert made with input `in` fails by the
\* steps of the protocol: the candidate pays nothing to the coordinator, the
\* sub-channel or the position is missing, signing or broadcasting fails.
ConfirmStepFails(channel_id, in) ==
    \/ ~PaysCoordinator(in.transaction)
    \/ ~SubChannelExists(channel_id)
    \/ positions[CounterParty(channel_id)] = "None"
    \/ in.failure \in {"signing", "broadcast"}

\* C22: a confirm call changes a position only when it has broadcast the
\* transaction and returns Ok; a call one of whose steps fails returns an
\* error and leaves the positions, the broadcast transactions and the
\* channels as they were.
C22_ConfirmFailureChangesNothing ==
    [][revert_call'.op = "confirm"
         => /\ positions' # positions
                 => revert_call'.outcome = "Ok" /\ revert_call'.broadcast
            /\ ConfirmStepFails(revert_call'.channel_id, revert_call'.in)
                 => /\ revert_call'.outcome = "Err"
                    /\ positions' = positions
                    /\ broadcasts' = broadcasts
                    /\ dlc_channels' = dlc_channels]_vars

\* C23: confirming the same transaction for the same channel again does not
\* broadcast it again: no transaction of a channel is broadcast twice.
C23_SameTransactionBroadcastOnce ==
    \A i, j \in 1..Len(broadcasts) : broadcasts[i] = broadcasts[j] => i = j

\* Task t is running and the caller has dropped its reply channel.
ReplyDropped(t) == tasks[t] # NoTask /\ ~tasks[t].reply_open

\* The consumer can take the next message: one is left in the run and fewer
\* than MaxConcurrent tasks are running.
ConsumerCanSpawn ==
    (\E t \in OrderIds : tasks[t] = NoTask) /\ Cardinality(Running) < MaxConcurrent

\* C24: a task whose reply channel was dropped makes every step of
\* process_new_order with its database changes: the order is inserted, the
\* match records of each side are persisted and the side's order gets its
\* state, an order without a match is set to Failed; the task ends with the
\* result of process_new_order, and the consumer spawns the next message's
\* task whatever became of the replies.
C24_DroppedReplyDoesNotStopTask ==
    [][/\ \A t \in OrderIds :
            (ReplyDropped(t) /\ tasks'[t] # tasks[t])
              => /\ tasks[t].pc = "insert" => orders_table'[t] # NoOrder
                 /\ tasks[t].pc = "fail" => orders_table'[t].order_state = "Failed"
                 /\ tasks[t].pc = "notify"
                      => /\ tasks'[t].pc = "set_state"
                         /\ MatchRows(SidesOf(t)[tasks[t].next]) \subseteq matches_table'
                 /\ tasks[t].pc = "set_state"
                      => /\ orders_table'[SideOrderId(t)].order_state = tasks[t].order_state
                         /\ IF tasks[t].next < Len(SidesOf(t))
                            THEN tasks'[t].pc = "notify"
                            ELSE tasks'[t].pc = "done" /\ tasks'[t].reply = OkReply(t)
                 /\ tasks'[t].pc = "done" => tasks'[t].reply # NoReply
       /\ ConsumerCanSpawn => ENABLED SpawnReplyOrder]_vars

\* C24's case: a market order whose caller dropped the reply channel was
\* matched, its task ended with success and the taker's order is Matched,
\* and the consumer has spawned the task of a later message.
C24_Witness ==
    \E t \in OrderIds :
        /\ ReplyDropped(t)
        /\ HasMatch(t)
        /\ tasks[t].pc = "done"
        /\ tasks[t].reply = OkReply(t)
        /\ orders_table[t].order_state = "Matched"
        /\ MatchRecordsOf(matches_table, t) # {}
        /\ \E later \in OrderIds : later > t /\ tasks[later] # NoTask

\* The orders chosen as makers in the match of params.
MakersOf(params) ==
    {params.makers_matches[i].filled_with.order_id : i \in 1..Len(params.makers_matches)}

\* C25: the sweep of a task leaves every limit order it found open and past
\* its expiry in state Failed, and it is made before the task loads the
\* limit orders: no order that was past its expiry at the task's sweep is a
\* maker of the match the task finds.
C25_SweptOrderIsNeverMaker ==
    [][\A t \in OrderIds :
         /\ (tasks[t] # NoTask /\ tasks[t].pc = "sweep" /\ tasks'[t] # tasks[t])
              => /\ \A id \in ExpiredLimitOrders : orders_table'[id].order_state = "Failed"
                 /\ tasks'[t].pc = "insert" => tasks'[t].swept = PastExpiry
         /\ (tasks[t] # NoTask /\ tasks[t].pc = "match" /\ tasks'[t].pc = "notify")
              => /\ MakersOf(tasks'[t].matched) # {}
                 /\ MakersOf(tasks'[t].matched) \cap tasks[t].swept = {}]_vars

\* C25's case: a task that swept an expired limit order of the opposite
\* direction has matched its market order with another limit order.
C25_Witness ==
    \E t \in OrderIds :
        /\ HasMatch(t)
        /\ tasks[t].pc = "notify"
        /\ \E id \in tasks[t].swept :
              /\ orders_table[id].direction = Opposite(orders_table[t].direction)
              /\ orders_table[id].order_state = "Failed"
              /\ id \notin MakersOf(tasks[t].matched)

\* The outpoints in the reservation store.
Reserved(store) == {store[i] : i \in 1..Len(store)}

\* The outpoints returned by the call that has just started a funding flow.
Returned == funding_flows'[Len(funding_flows')].outpoints

\* C26: a successful create_funding_transaction or
\* get_utxos_for_dlc_funding_transaction(should_lock = true) returns no
\* outpoint that is in the reservation store, which holds what the calls
\* since the last sync reserved; it reads the store, selects and appends in
\* one step made while it holds the store's lock, so the store afterwards is
\* the store before followed by the returned outpoints.
C26_ReservedOutpointIsNotReturnedAgain ==
    [][Len(funding_flows') > Len(funding_flows)
         => /\ Returned \cap Reserved(locked_outpoints) = {}
            /\ \E selected \in Orderings(Returned) :
                  locked_outpoints' = locked_outpoints \o selected
            /\ locked_owner \in WalletThreads
            /\ wallet_threads[locked_owner].pc \in {"create_build", "utxos_select"}
            /\ locked_owner' = Free]_vars

\* C26's case: two calls have reserved outpoints with no sync in between,
\* the second while the first's transaction was not broadcast.
C26_Witness ==
    /\ Len(funding_flows) = 2
    /\ ~funding_flows[1].broadcast
    /\ ~funding_flows[2].broadcast
    /\ funding_flows[1].outpoints \cap funding_flows[2].outpoints = {}
    /\ Reserved(locked_outpoints) = funding_flows[1].outpoints \cup funding_flows[2].outpoints
    /\ bdk_spent = {}

\* Some of the wallet's unspent outpoints that are not reserved cover the
\* amount.
CanFund(amount) ==
    \E sel \in SUBSET (list_unspent \ Reserved(locked_outpoints)) :
        Cardinality(sel) * UtxoValue >= amount

\* C27: a create_funding_transaction or
\* get_utxos_for_dlc_funding_transaction made when the unreserved, unspent
\* outpoints cannot cover the amount returns an error, and leaves the
\* reservation store as it was and starts no funding flow.
C27_UnfundableCallFailsAndReservesNothing ==
    [][\A t \in WalletThreads :
         (/\ wallet_threads[t].pc \in {"create_build", "utxos_select"}
          /\ wallet_threads'[t] # wallet_threads[t]
          /\ ~CanFund(wallet_threads[t].amount))
            => /\ wallet_threads'[t].pc = "return"
               /\ wallet_threads'[t].result = "Err"
               /\ locked_outpoints' = locked_outpoints
               /\ funding_flows' = funding_flows]_vars

\* C27's case: each of the wallet's outpoints was reserved by a funding of
\* its own, no sync has run since, and one more funding has failed.
C27_Witness ==
    /\ Len(funding_flows) = NumUtxos
    /\ \A f \in 1..Len(funding_flows) : Cardinality(funding_flows[f].outpoints) = 1
    /\ Reserved(locked_outpoints) = Outpoints
    /\ Len(locked_outpoints) = NumUtxos
    /\ \E t \in WalletThreads :
          /\ wallet_threads[t].pc = "return"
          /\ wallet_threads[t].result = "Err"
          /\ wallet_threads[t].amount = 1

\* C28: a confirm call for a channel id that names no sub-channel returns an
\* error; it signs nothing, broadcasts nothing and changes no position.
C28_UnknownChannelIsRejected ==
    [][(revert_call'.op = "confirm" /\ revert_call'.channel_id \notin ChannelIds)
         => /\ revert_call'.outcome = "Err"
            /\ ~revert_call'.signed
            /\ ~revert_call'.broadcast
            /\ broadcasts' = broadcasts
            /\ positions' = positions]_vars

\* C28's case: the call for the unknown channel had a transaction that pays
\* the coordinator, its counterparty by number has an open position, and
\* signing and broadcasting would have worked.
C28_Witness ==
    /\ revert_call.op = "confirm"
    /\ revert_call.channel_id \notin ChannelIds
    /\ PaysCoordinator(revert_call.in.transaction)
    /\ revert_call.in.failure = "none"
    /\ positions[CounterParty(revert_call.channel_id)] = "Open"
    /\ revert_call.outcome = "Err"

\* The edges of the channel state machine.
ChannelStateEdges ==
    { <<"Pending", "Open">>, <<"Pending", "Failed">>, <<"Pending", "Cancelled">>,
      <<"Open", "Closing">>, <<"Closing", "Closing">>, <<"Closing", "Closed">> }

\* C29: every change of a row's channel_state made by an operation of the
\* channel store follows an edge of the channel state machine.
C29_StateChangesFollowEdges ==
    [][\A i \in 1..Len(dlc_channels) :
          dlc_channels'[i].channel_state # dlc_channels[i].channel_state
            => <<dlc_channels[i].channel_state, dlc_channels'[i].channel_state>>
                 \in ChannelStateEdges]_vars

\* The columns update_channel_on_renew may write (updated_at is not modelled).
RenewedColumns == {"coordinator_reserve_sats", "trader_reserve_sats"}

\* C30: update_channel_on_renew leaves the table with the same rows; in the
\* row of the given channel id only the two reserves can differ, and every
\* other row is as it was.
C30_RenewChangesOnlyReserves ==
    [][update_channel_on_renew
         => /\ Len(dlc_channels') = Len(dlc_channels)
            /\ \E channel_id \in ChannelIds :
                  \A i \in 1..Len(dlc_channels) :
                     IF dlc_channels[i].channel_id = channel_id
                     THEN \A column \in DOMAIN dlc_channels[i] \ RenewedColumns :
                             dlc_channels'[i][column] = dlc_channels[i][column]
                     ELSE dlc_channels'[i] = dlc_channels[i]]_vars

\* C30's case: a channel that is still Pending has got its reserves from a
\* renew, next to a channel whose reserves were never written.
C30_Witness ==
    \E i, j \in 1..Len(dlc_channels) :
        /\ dlc_channels[i].channel_state = "Pending"
        /\ dlc_channels[i].coordinator_reserve_sats > 0
        /\ dlc_channels[i].trader_reserve_sats > 0
        /\ dlc_channels[j].coordinator_reserve_sats = 0
        /\ dlc_channels[j].trader_reserve_sats = 0

\* C31: a consumed message has no reply while its task is running; the task's
\* last step sends one reply, the result of process_new_order for that
\* message, and nothing is sent for the message afterwards; under fair
\* scheduling of the tasks every consumed message gets its reply.
C31_OneReplyAfterProcessing ==
    /\ [](\A t \in OrderIds :
            tasks[t] # NoTask
              => /\ tasks[t].pc # "done" => tasks[t].reply = NoReply
                 /\ tasks[t].pc = "done"
                      => /\ tasks[t].reply # NoReply
                         /\ tasks[t].reply.ok => tasks[t].reply = OkReply(t))
    /\ [][\A t \in OrderIds :
            (tasks[t] # NoTask /\ tasks[t].pc = "done") => tasks'[t] = tasks[t]]_vars
    /\ <>[](\A t \in OrderIds : tasks[t] # NoTask => tasks[t].pc = "done")

\* C31's case: the task of a later message has sent its reply while the task
\* of an earlier message is still running.
C31_Witness ==
    \E earlier, later \in OrderIds :
        /\ earlier < later
        /\ tasks[earlier] # NoTask
        /\ tasks[earlier].pc \notin {"start", "done"}
        /\ tasks[earlier].reply = NoReply
        /\ tasks[later] # NoTask
        /\ tasks[later].pc = "done"
        /\ tasks[later].reply = OkReply(later)

\* C32: after the sweep of a task, a DeleteOrder with the order's id is on
\* the price feed for every limit order the sweep has set to Failed.
C32_SweptOrderIsAnnounced ==
    [][\A t \in OrderIds :
         (tasks[t] # NoTask /\ tasks[t].pc = "sweep" /\ tasks'[t] # tasks[t])
            => \A id \in ExpiredLimitOrders :
                  orders_table'[id].order_state = "Failed"
                    => [kind |-> "DeleteOrder", id |-> id] \in price_feed']_vars

\* C33: no step of a process_new_order task changes the state of an order
\* that is Failed.
C33_FailedOrderStaysFailed ==
    [][\A id \in Present :
          orders_table[id].order_state = "Failed"
            => orders_table'[id].order_state = "Failed"]_vars

\* The candidates of the direction opposite to the market order's.
OppositeCandidates ==
    {i \in 1..Len(match_call.book) :
        match_call.book[i].direction # match_call.market_order.direction}

\* C34: the maker of a match is a best candidate of the opposite direction:
\* none is cheaper for a Long market order, none dearer for a Short one, and
\* none at the maker's price is earlier.
C34_MakerIsBestCandidate ==
    (match_call.pc = "done" /\ match_call.result.kind = "Match")
        => LET maker == match_call.book[MakerOf(match_call.result)]
           IN  /\ MakerOf(match_call.result) \in OppositeCandidates
               /\ \A i \in OppositeCandidates :
                     LET other == match_call.book[i]
                     IN  /\ match_call.market_order.direction = "Long"
                              => maker.price <= other.price
                         /\ match_call.market_order.direction = "Short"
                              => maker.price >= other.price
                         /\ maker.price = other.price
                              => maker.timestamp <= other.timestamp

\* C34's case: a Short market order matched with the dearest of three
\* candidates, the last of the list, ahead of a later candidate at the same
\* price.
C34_Witness ==
    /\ match_call.pc = "done"
    /\ match_call.result.kind = "Match"
    /\ match_call.market_order.direction = "Short"
    /\ OppositeCandidates = 1..3
    /\ MakerOf(match_call.result) = 3
    /\ match_call.book[1].price < match_call.book[3].price
    /\ match_call.book[2].price = match_call.book[3].price
    /\ match_call.book[2].timestamp > match_call.book[3].timestamp

\* C35: the maker of a match is an order of type Limit.
C35_MakerIsLimitOrder ==
    (match_call.pc = "done" /\ match_call.result.kind = "Match")
        => match_call.book[MakerOf(match_call.result)].order_type = "Limit"

\* C38: the quantity a match executes is not larger than the quantity of the
\* maker's order.
C38_ExecutedQuantityWithinMaker ==
    (match_call.pc = "done" /\ match_call.result.kind = "Match")
        => match_call.result.params.taker_match.filled_with.matches[1].quantity
             <= match_call.book[MakerOf(match_call.result)].quantity

\* Thread t holds the BDK wallet's lock and waits for the lock of the
\* reserved outpoints.
HoldsWalletWantsReserved(t) ==
    /\ inner_owner = t
    /\ wallet_threads[t].pc = "sync_clear"
    /\ locked_owner \notin {Free, t}

\* Thread t holds the lock of the reserved outpoints and waits for the BDK
\* wallet's lock.
HoldsReservedWantsWallet(t) ==
    /\ locked_owner = t
    /\ wallet_threads[t].pc \in {"create_build", "send_build", "fee_build", "utxos_select"}
    /\ inner_owner \notin {Free, t}

\* C36: the wallet's calls do not deadlock on the two locks: no thread waits
\* for a lock held by a thread that waits for a lock the first one holds.
C36_NoDeadlockOnTheTwoLocks ==
    ~ \E t, u \in WalletThreads : HoldsWalletWantsReserved(t) /\ HoldsReservedWantsWallet(u)

\* The orders that the persisted matches name as matched against order `id`
\* on its own side.
TakersOf(id) == {row.match_order_id : row \in {r \in matches_table : r.order_id = id}}

\* C37: a limit order is the maker of at most one persisted match: the
\* matches of its side name one market order at most.
C37_LimitOrderHasOneTaker ==
    \A id \in Present :
        orders_table[id].order_type = "Limit" => Cardinality(TakersOf(id)) <= 1

\* C39: a confirm call signs and broadcasts a transaction only for a channel
\* that has a persisted CollaborativeRevert proposal; without one the call is
\* rejected, also when the candidate pays the coordinator.
C39_ConfirmNeedsPersistedProposal ==
    (/\ revert_call.op = "confirm"
     /\ PaysCoordinator(revert_call.in.transaction)
     /\ revert_call.broadcast)
        => collaborative_reverts[revert_call.channel_id] # NoRow

=============================================================================
